---- MODULE Spec2Model ----
(***************************************************************************)
(* Batch PDF pipelines of the repository (upload -> poll -> completion ->  *)
(* extraction -> artifacts -> cleanup) and the tolerant JSON extraction    *)
(* they rely on.                                                           *)
(*                                                                         *)
(* Texts are sequences of lexical chunks.  A chunk is either one           *)
(* structural character ([ ] { } , : " ' space newline), a run of three    *)
(* backticks (FENCE), or a word / digit with none of those characters.     *)
(* Regular expressions, str.strip, json.loads and ast.literal_eval are     *)
(* computed over these chunks exactly as the Python code computes them     *)
(* over characters.                                                        *)
(***************************************************************************)
EXTENDS Integers, Sequences, FiniteSets, TLC

\* ------------------------------------------------------------------------
\* Text primitives
\* ------------------------------------------------------------------------

\* Python's whitespace as seen by str.strip, \s and the JSON scanner.
WS == {" ", "\n"}

DIGITS == {"0", "1", "2", "3"}

MinOf(S) == CHOOSE x \in S : \A y \in S : x <= y

MaxOf(S) == CHOOSE x \in S : \A y \in S : x >= y

\* Index of the first non-whitespace chunk at or after p (Len(t)+1 if none).
SkipWs(t, p) ==
  LET S == {q \in p..Len(t) : t[q] \notin WS}
  IN IF S = {} THEN Len(t) + 1 ELSE MinOf(S)

\* str.strip(): drop leading and trailing whitespace.
strip(t) ==
  LET S == {q \in 1..Len(t) : t[q] \notin WS}
  IN IF S = {} THEN <<>> ELSE SubSeq(t, MinOf(S), MaxOf(S))

\* str.startswith / str.endswith on chunk sequences.
startswith(t, pre) ==
  Len(t) >= Len(pre) /\ SubSeq(t, 1, Len(pre)) = pre

endswith(t, suf) ==
  Len(t) >= Len(suf) /\ SubSeq(t, Len(t) - Len(suf) + 1, Len(t)) = suf

\* ------------------------------------------------------------------------
\* Parsed values (Python objects produced by json.loads / literal_eval)
\* ------------------------------------------------------------------------

\* Python None (json null); also the placeholder of a failed parse.
NoneV == [t |-> "none", s |-> <<>>, keys |-> <<>>, items |-> <<>>]

NumV(digits) == [t |-> "num", s |-> digits, keys |-> <<>>, items |-> <<>>]

StrV(chunks) == [t |-> "str", s |-> chunks, keys |-> <<>>, items |-> <<>>]

ArrV(items) == [t |-> "arr", s |-> <<>>, keys |-> <<>>, items |-> items]

ObjV(keys, items) == [t |-> "obj", s |-> <<>>, keys |-> keys, items |-> items]

SetV(items) == [t |-> "set", s |-> <<>>, keys |-> <<>>, items |-> items]

Fail == [ok |-> FALSE, v |-> NoneV, p |-> 0]

Ok(v, p) == [ok |-> TRUE, v |-> v, p |-> p]

\* dict[k] = v: a repeated key keeps its first position and the last value.
DictPut(d, k, v) ==
  LET hit == {i \in 1..Len(d.keys) : d.keys[i] = k}
  IN IF hit = {}
     THEN ObjV(Append(d.keys, k), Append(d.items, v))
     ELSE ObjV(d.keys, [d.items EXCEPT ![MinOf(hit)] = v])

\* "key in dict" and dict.get(key, default) for a string key.
HasKey(d, k) == \E i \in 1..Len(d.keys) : d.keys[i] = StrV(<<k>>)

DictGet(d, k, default) ==
  IF HasKey(d, k)
  THEN d.items[CHOOSE i \in 1..Len(d.keys) : d.keys[i] = StrV(<<k>>)]
  ELSE default

\* A run of digit chunks starting at p: the index after the run.
DigitsEnd(t, p) ==
  LET S == {q \in p..Len(t) : t[q] \notin DIGITS}
  IN IF S = {} THEN Len(t) + 1 ELSE MinOf(S)

\* ------------------------------------------------------------------------
\* json.loads
\* ------------------------------------------------------------------------

\* A JSON string starting at the quote t[p]: up to the next double quote;
\* a raw newline inside a string is rejected (strict mode).
JString(t, p) ==
  LET S == {q \in (p + 1)..Len(t) : t[q] = "\""}
  IN IF S = {} THEN Fail
     ELSE LET q == MinOf(S)
              body == SubSeq(t, p + 1, q - 1)
          IN IF \E i \in 1..Len(body) : body[i] = "\n"
             THEN Fail ELSE Ok(StrV(body), q + 1)

\* A JSON number: digits with no leading zero.
JNumber(t, p) ==
  LET e == DigitsEnd(t, p)
  IN IF e - p > 1 /\ t[p] = "0" THEN Fail
     ELSE Ok(NumV(SubSeq(t, p, e - 1)), e)

RECURSIVE JValue(_, _), JElems(_, _, _), JMembers(_, _, _)

\* One JSON value starting exactly at p.
JValue(t, p) ==
  IF p > Len(t) THEN Fail
  ELSE IF t[p] = "\"" THEN JString(t, p)
  ELSE IF t[p] \in DIGITS THEN JNumber(t, p)
  ELSE IF t[p] = "null" THEN Ok(NoneV, p + 1)
  ELSE IF t[p] = "[" THEN
    LET q == SkipWs(t, p + 1)
    IN IF q <= Len(t) /\ t[q] = "]" THEN Ok(ArrV(<<>>), q + 1)
       ELSE JElems(t, q, <<>>)
  ELSE IF t[p] = "{" THEN
    LET q == SkipWs(t, p + 1)
    IN IF q <= Len(t) /\ t[q] = "}" THEN Ok(ObjV(<<>>, <<>>), q + 1)
       ELSE JMembers(t, q, ObjV(<<>>, <<>>))
  ELSE Fail

\* Array elements from p (an element is required here).
JElems(t, p, acc) ==
  LET r == JValue(t, p)
  IN IF ~r.ok THEN Fail
     ELSE LET q == SkipWs(t, r.p)
              items == Append(acc, r.v)
          IN IF q > Len(t) THEN Fail
             ELSE IF t[q] = "]" THEN Ok(ArrV(items), q + 1)
             ELSE IF t[q] = "," THEN JElems(t, SkipWs(t, q + 1), items)
             ELSE Fail

\* Object members from p (a string key is required here).
JMembers(t, p, acc) ==
  IF p > Len(t) \/ t[p] # "\"" THEN Fail
  ELSE LET k == JString(t, p)
       IN IF ~k.ok THEN Fail
          ELSE LET c == SkipWs(t, k.p)
               IN IF c > Len(t) \/ t[c] # ":" THEN Fail
                  ELSE LET r == JValue(t, SkipWs(t, c + 1))
                       IN IF ~r.ok THEN Fail
                          ELSE LET q == SkipWs(t, r.p)
                                   d == DictPut(acc, k.v, r.v)
                               IN IF q > Len(t) THEN Fail
                                  ELSE IF t[q] = "}" THEN Ok(d, q + 1)
                                  ELSE IF t[q] = ","
                                       THEN JMembers(t, SkipWs(t, q + 1), d)
                                  ELSE Fail

\* json.loads(t): one value, whitespace around it, nothing else.
json_loads(t) ==
  LET r == JValue(t, SkipWs(t, 1))
  IN IF r.ok /\ SkipWs(t, r.p) > Len(t) THEN [ok |-> TRUE, v |-> r.v]
     ELSE [ok |-> FALSE, v |-> NoneV]

\* ------------------------------------------------------------------------
\* ast.literal_eval
\* ------------------------------------------------------------------------

TupV(items) == [t |-> "tuple", s |-> <<>>, keys |-> <<>>, items |-> items]

\* Inside brackets Python's tokenizer skips spaces and newlines; at the top
\* level a newline ends the expression, so only spaces are skipped.
PySkip(t, p, depth) ==
  IF depth > 0 THEN SkipWs(t, p)
  ELSE LET S == {q \in p..Len(t) : t[q] # " "}
       IN IF S = {} THEN Len(t) + 1 ELSE MinOf(S)

\* str, int and None are hashable; list, dict and set are not (TypeError).
Hashable(v) == v.t \in {"str", "num", "none"} \/
               (v.t = "tuple" /\ \A i \in 1..Len(v.items) :
                                    v.items[i].t \in {"str", "num", "none"})

\* A Python string literal at the quote t[p] (either quote character): up to
\* the next quote of the same kind, on one line; three quotes in a row open
\* a triple-quoted literal, closed by the next three in a row.
PyOneString(t, p) ==
  IF p + 2 <= Len(t) /\ t[p + 1] = t[p] /\ t[p + 2] = t[p]
  THEN LET S == {q \in (p + 3)..(Len(t) - 2) :
                   t[q] = t[p] /\ t[q + 1] = t[p] /\ t[q + 2] = t[p]}
       IN IF S = {} THEN Fail
          ELSE Ok(StrV(SubSeq(t, p + 3, MinOf(S) - 1)), MinOf(S) + 3)
  ELSE LET S == {q \in (p + 1)..Len(t) : t[q] = t[p]}
       IN IF S = {} THEN Fail
          ELSE LET q == MinOf(S)
                   body == SubSeq(t, p + 1, q - 1)
               IN IF \E i \in 1..Len(body) : body[i] = "\n"
                  THEN Fail ELSE Ok(StrV(body), q + 1)

RECURSIVE PyString(_, _, _, _)
\* Adjacent string literals are concatenated.
PyString(t, p, depth, acc) ==
  LET r == PyOneString(t, p)
  IN IF ~r.ok THEN Fail
     ELSE LET q == PySkip(t, r.p, depth)
              s == acc \o r.v.s
          IN IF q <= Len(t) /\ t[q] \in {"\"", "'"}
             THEN PyString(t, q, depth, s)
             ELSE Ok(StrV(s), r.p)

\* A decimal integer literal: no leading zero, except a run of zeros.
PyNumber(t, p) ==
  LET e == DigitsEnd(t, p)
      run == SubSeq(t, p, e - 1)
  IN IF \A i \in 1..Len(run) : run[i] = "0" THEN Ok(NumV(<<"0">>), e)
     ELSE IF t[p] = "0" THEN Fail
     ELSE Ok(NumV(run), e)

\* set(...) keeps one copy of equal elements.
SetAdd(items, v) ==
  IF \E i \in 1..Len(items) : items[i] = v THEN items ELSE Append(items, v)

RECURSIVE PyValue(_, _, _), PyElems(_, _, _, _), PyMembers(_, _, _, _),
          PySetElems(_, _, _, _)

PyValue(t, p, depth) ==
  IF p > Len(t) THEN Fail
  ELSE IF t[p] \in {"\"", "'"} THEN PyString(t, p, depth, <<>>)
  ELSE IF t[p] \in DIGITS THEN PyNumber(t, p)
  ELSE IF t[p] = "None" THEN Ok(NoneV, p + 1)
  ELSE IF t[p] = "[" THEN PyElems(t, SkipWs(t, p + 1), depth + 1, <<>>)
  ELSE IF t[p] = "{" THEN
    LET q == SkipWs(t, p + 1)
    IN IF q <= Len(t) /\ t[q] = "}" THEN Ok(ObjV(<<>>, <<>>), q + 1)
       ELSE LET r == PyValue(t, q, depth + 1)
            IN IF ~r.ok THEN Fail
               ELSE LET c == SkipWs(t, r.p)
                    IN IF c <= Len(t) /\ t[c] = ":"
                       THEN PyMembers(t, q, depth + 1, ObjV(<<>>, <<>>))
                       ELSE PySetElems(t, q, depth + 1, <<>>)
  ELSE Fail

\* List elements from p up to the closing bracket; a trailing comma is allowed.
PyElems(t, p, depth, acc) ==
  IF p > Len(t) THEN Fail
  ELSE IF t[p] = "]" THEN Ok(ArrV(acc), p + 1)
  ELSE LET r == PyValue(t, p, depth)
       IN IF ~r.ok THEN Fail
          ELSE LET q == SkipWs(t, r.p)
                   items == Append(acc, r.v)
               IN IF q > Len(t) THEN Fail
                  ELSE IF t[q] = "]" THEN Ok(ArrV(items), q + 1)
                  ELSE IF t[q] = ","
                       THEN PyElems(t, SkipWs(t, q + 1), depth, items)
                  ELSE Fail

\* Dict entries from p up to the closing brace; keys must be hashable.
PyMembers(t, p, depth, acc) ==
  IF p > Len(t) THEN Fail
  ELSE IF t[p] = "}" THEN Ok(acc, p + 1)
  ELSE LET k == PyValue(t, p, depth)
       IN IF ~k.ok \/ ~Hashable(k.v) THEN Fail
          ELSE LET c == SkipWs(t, k.p)
               IN IF c > Len(t) \/ t[c] # ":" THEN Fail
                  ELSE LET r == PyValue(t, SkipWs(t, c + 1), depth)
                       IN IF ~r.ok THEN Fail
                          ELSE LET q == SkipWs(t, r.p)
                                   d == DictPut(acc, k.v, r.v)
                               IN IF q > Len(t) THEN Fail
                                  ELSE IF t[q] = "}" THEN Ok(d, q + 1)
                                  ELSE IF t[q] = ","
                                       THEN PyMembers(t, SkipWs(t, q + 1), depth, d)
                                  ELSE Fail

\* Set elements from p up to the closing brace; elements must be hashable.
PySetElems(t, p, depth, acc) ==
  IF p > Len(t) THEN Fail
  ELSE IF t[p] = "}" THEN Ok(SetV(acc), p + 1)
  ELSE LET r == PyValue(t, p, depth)
       IN IF ~r.ok \/ ~Hashable(r.v) THEN Fail
          ELSE LET q == SkipWs(t, r.p)
                   items == SetAdd(acc, r.v)
               IN IF q > Len(t) THEN Fail
                  ELSE IF t[q] = "}" THEN Ok(SetV(items), q + 1)
                  ELSE IF t[q] = ","
                       THEN PySetElems(t, SkipWs(t, q + 1), depth, items)
                  ELSE Fail

RECURSIVE PyTop(_, _, _)
\* The top-level expression: one value, or values separated by commas (a
\* tuple, with an optional trailing comma).
PyTop(t, p, acc) ==
  LET r == PyValue(t, p, 0)
  IN IF ~r.ok THEN Fail
     ELSE LET q == PySkip(t, r.p, 0)
              items == Append(acc, r.v)
          IN IF q <= Len(t) /\ t[q] = ","
             THEN LET n == PySkip(t, q + 1, 0)
                  IN IF SkipWs(t, n) > Len(t) THEN Ok(TupV(items), n)
                     ELSE PyTop(t, n, items)
             ELSE IF acc = <<>> THEN Ok(r.v, r.p)
             ELSE Ok(TupV(items), r.p)

\* ast.literal_eval(t) of a text: leading spaces dropped, one expression,
\* trailing whitespace allowed.
literal_eval(t) ==
  LET r == PyTop(t, PySkip(t, 1, 0), <<>>)
  IN IF r.ok /\ SkipWs(t, r.p) > Len(t) THEN [ok |-> TRUE, v |-> r.v]
     ELSE [ok |-> FALSE, v |-> NoneV]

\* ------------------------------------------------------------------------
\* Array pattern  \[\s*{.*?}\s*]  (re.DOTALL) and the extraction built on it
\* ------------------------------------------------------------------------

\* For a start p with t[p] = "[": the index of the "]" that ends the shortest
\* match starting at p, or 0 when no match starts at p.
MatchEnd(t, p) ==
  LET j == SkipWs(t, p + 1)
  IN IF j > Len(t) \/ t[j] # "{" THEN 0
     ELSE LET C == {q \in (j + 1)..Len(t) :
                      /\ t[q] = "}"
                      /\ SkipWs(t, q + 1) <= Len(t)
                      /\ t[SkipWs(t, q + 1)] = "]"}
          IN IF C = {} THEN 0 ELSE SkipWs(t, MinOf(C) + 1)

\* A search that returns the rightmost match instead.
re_search_last(t) ==
  LET S == {p \in 1..Len(t) : t[p] = "[" /\ MatchEnd(t, p) > 0}
  IN IF S = {} THEN [found |-> FALSE, s |-> 0, e |-> 0]
     ELSE [found |-> TRUE, s |-> MaxOf(S), e |-> MatchEnd(t, MaxOf(S))]

\* re.search(r"\[\s*{.*?}\s*\]", t, re.DOTALL): the leftmost match.
re_search_array(t) ==
  LET S == {p \in 1..Len(t) : t[p] = "[" /\ MatchEnd(t, p) > 0}
  IN IF S = {} THEN [found |-> FALSE, s |-> 0, e |-> 0]
     ELSE [found |-> TRUE, s |-> MinOf(S), e |-> MatchEnd(t, MinOf(S))]

\* match.group(0)
group0(t, m) == SubSeq(t, m.s, m.e)

\* The chunk standing for a run of three backticks.
FENCE == "FENCE"

\* The markdown fence removal of extract_json_from_response.
strip_fences(t) ==
  LET a == IF startswith(t, <<FENCE, "json">>) THEN SubSeq(t, 3, Len(t))
           ELSE IF startswith(t, <<FENCE>>) THEN SubSeq(t, 2, Len(t))
           ELSE t
      b == IF endswith(a, <<FENCE>>) THEN SubSeq(a, 1, Len(a) - 1) ELSE a
  IN strip(b)

NoParse == [ok |-> FALSE, v |-> NoneV]

\* A first stage that never yields a value.
BlockIgnored(t, m) == NoParse

\* Stage 1: json.loads(match.group(0)) when the pattern is found.
ParseBlock(t, m) == IF m.found THEN json_loads(group0(t, m)) ELSE NoParse

\* An extraction without the literal_eval stage.
SkipLiteral(a, b, c) ==
  IF a.ok THEN [stage |-> 1, v |-> a.v]
  ELSE IF b.ok THEN [stage |-> 2, v |-> b.v]
  ELSE [stage |-> 0, v |-> NoneV]

\* The first attempt that succeeds decides the return value: stage 1 the
\* array pattern, 2 json.loads of the text, 3 literal_eval, 0 none (None).
FirstParse(a, b, c) ==
  IF a.ok THEN [stage |-> 1, v |-> a.v]
  ELSE IF b.ok THEN [stage |-> 2, v |-> b.v]
  ELSE IF c.ok THEN [stage |-> 3, v |-> c.v]
  ELSE [stage |-> 0, v |-> NoneV]

\* t is the stripped text, u the text after the fence removal.
ExtractAttempts(t, u) ==
  FirstParse(ParseBlock(t, re_search_array(t)), json_loads(u), literal_eval(u))

ExtractStripped(t) == ExtractAttempts(t, strip_fences(t))

\* Which stage of extract_json_from_response produces the return value.
extract_stage(raw) == ExtractStripped(strip(raw)).stage

\* extract_json_from_response(text); Python's None is NoneV.
extract_json_from_response(raw) == ExtractStripped(strip(raw)).v

\* ------------------------------------------------------------------------
\* The batch pipelines: scripts, bounds, inputs
\* ------------------------------------------------------------------------

\* Most PDFs a folder holds.
NDocs == 2

\* Most get_file polls that still report PROCESSING for one document.
MaxPolls == 2

Scripts == {"Report", "Scope123", "ExtractActions", "PromptValidation",
            "Analysis", "EnergyInventory", "Prompt_validation", "report_check",
            "Prioritized", "GHG", "Clustering", "Categorize"}

\* Scripts whose loop body starts with  pdf_file = None.
ResetsPdfFile == Scripts \ {"Prioritized", "GHG", "report_check"}

\* Scripts whose per-document try has a finally clause.
HasFinally == {"Report", "Scope123", "ExtractActions", "PromptValidation",
               "Analysis", "EnergyInventory", "Prompt_validation", "report_check"}

\* Scripts that wrap genai.configure in try/except and test folder.is_dir().
ChecksFolder == Scripts \ {"Prioritized", "GHG"}

\* Scripts that return early when the folder holds no PDF.
ChecksEmpty == Scripts \ {"Prioritized", "GHG"}

States == {"PROCESSING", "ACTIVE", "FAILED"}

Q == "\""

\* pdf_path.name of the d-th PDF of the folder.
PdfName(d) == <<IF d = 1 THEN "A.pdf" ELSE IF d = 2 THEN "B.pdf" ELSE "C.pdf">>

\* The JSON text of one object with one string member.
Member(k, v) == <<"{", Q, k, Q, ":", " ", Q>> \o v \o <<Q, "}">>

\* Completions of the model for the scripts that expect a JSON array.
ThreeActions == <<"[">> \o Member("action", <<"w">>) \o <<",", "\n">>
                \o Member("action", <<"v">>) \o <<",", "\n">>
                \o Member("action", <<"u">>) \o <<"]">>

ThreeSectors == <<"[">> \o Member("Sector", <<"waste">>) \o <<",", "\n">>
                \o Member("Sector", <<"transport">>) \o <<",", "\n">>
                \o Member("Sector", <<"waste">>) \o <<"]">>

ThreeScores == <<"[", "{", Q, "question_id", Q, ":", Q, "1.1", Q, ",",
                 Q, "score", Q, ":", "1", "}", ",",
                 "{", Q, "question_id", Q, ":", Q, "4.1", Q, ",",
                 Q, "score", Q, ":", "2", "}", ",",
                 "{", Q, "question_id", Q, ":", Q, "Example-Yes-1", Q, ",",
                 Q, "score", Q, ":", "1", "}", "]">>

Prose == <<"w", " ", "w", "\n">>

\* A block the array pattern matches and json.loads rejects.
BadBlock == <<"w", " ", "[", "{", "w", "}", "]">>

\* An array whose objects hold a nested array of objects.
NestedBlock == <<"w", " ", "[", "{", Q, "action", Q, ":", "[", "{", Q,
                 "Sector", Q, ":", "1", "}", "]", "}", "]">>

\* An array that the pattern matches, with an element that is not an object
\* between two objects.
MixedMatched == <<"[">> \o Member("Sector", <<"waste">>) \o <<",", "1", ",">>
                \o Member("Sector", <<"waste">>) \o <<"]">>

\* An array with a record that lacks a usable action / Sector.
PartialBlock == <<"[">> \o Member("action", <<" ">>) \o <<",">>
                \o Member("Sector", <<"waste">>) \o <<",">>
                \o Member("action", <<"w">>) \o <<"]">>

\* An array whose only record has a number for its Sector.
SectorNumber == <<"[", "{", Q, "Sector", Q, ":", " ", "1", "}", "]">>

FencedObject == <<FENCE, "json", "\n">> \o Member("action", <<"w">>)
                \o <<"\n", FENCE>>

PyLiteral == <<"{", "'", "action", "'", ":", " ", "1", "}">>

\* A markdown table as cluster_energy_actions expects it.
TableText == <<"w", "\n",
               "|", " ", "Category", " ", "|", " ", "Action", " ", "|", " ",
               "Document", " ", "|", " ", "Page", " ", "|", "\n",
               "|", "---", "|", "---", "|", "---", "|", "---", "|", "\n",
               "|", " ", "w", " ", "|", " ", "v", " ", "|", " ", "u", " ", "|",
               " ", "1", " ", "|", "\n",
               "|", " ", "w", " ", "|", " ", "v", " ", "|">>

\* response.text is a string, or absent (None).
Resp(t) == [absent |-> FALSE, text |-> t]

NoText == [absent |-> TRUE, text |-> <<>>]

\* The completions each script is run against: an absent text, an empty one,
\* prose, the array the script expects, and arrays that exercise its branches.
Responses(s) ==
  {NoText, Resp(<<>>), Resp(Prose)} \cup
  (CASE s = "Report" ->
          {Resp(ThreeScores), Resp(BadBlock), Resp(NestedBlock), Resp(PyLiteral),
           Resp(FencedObject)}
     [] s \in {"Scope123", "ExtractActions"} ->
          {Resp(ThreeSectors), Resp(BadBlock), Resp(MixedMatched)}
     [] s = "Prioritized" ->
          {Resp(ThreeSectors), Resp(BadBlock), Resp(PartialBlock),
           Resp(SectorNumber)}
     [] s = "GHG" ->
          {Resp(ThreeSectors), Resp(BadBlock), Resp(MixedMatched)}
     [] s = "Categorize" ->
          {Resp(ThreeActions), Resp(BadBlock), Resp(PartialBlock)}
     [] s = "Clustering" -> {Resp(TableText)}
     [] OTHER -> {})

\* ------------------------------------------------------------------------
\* State
\* ------------------------------------------------------------------------

VARIABLES
  script,       \* which script runs
  folder,       \* [exists, n]: the input folder and the number of its PDFs
  pc,           \* position of the script
  i,            \* index of the current PDF (0 before the loop)
  pdf_file,     \* the local variable pdf_file: [b, id, state]
  remote,       \* ids of the files stored by the remote service
  response,     \* the completion of the current document
  df_bound,     \* whether the local variable df has been assigned
  exc,          \* an exception is propagating out of the handler
  files,        \* artifacts on disk
  all_data,     \* the batch accumulator (all_data / all_actions / summaries)
  summary_data, \* GeminiAPIReport's summary rows
  log,          \* calls of the current loop iteration, in order
  history,      \* per document started: its completion and how processing ended
  text, result, artifact, phase   \* the extraction exercised on its own

pvars == <<script, folder, pc, i, pdf_file, remote, response, df_bound, exc,
           files, all_data, summary_data, log, history>>

xvars == <<text, result, artifact, phase>>

vars == <<pvars, xvars>>

Unbound == [b |-> "unbound", id |-> 0, state |-> "-"]

PyNone == [b |-> "none", id |-> 0, state |-> "-"]

File(d, st) == [b |-> "file", id |-> d, state |-> st]

Call(op, h, r) == [op |-> op, h |-> h, r |-> r]

NoArtifact == [written |-> FALSE, form |-> "-", content |-> <<>>]

XIdle == text = <<>> /\ result = NoneV /\ artifact = NoArtifact /\ phase = "off"

Init ==
  /\ script \in Scripts
  /\ folder \in [exists : BOOLEAN, n : 0..NDocs]
  /\ folder.exists \/ folder.n = 0
  /\ pc = "start"
  /\ i = 0
  /\ pdf_file = Unbound
  /\ remote = {}
  /\ response = NoText
  /\ df_bound = FALSE
  /\ exc = FALSE
  /\ files = {}
  /\ all_data = <<>>
  /\ summary_data = <<>>
  /\ log = <<>>
  /\ history = <<>>
  /\ XIdle

\* ------------------------------------------------------------------------
\* Before the loop and the remote calls of one iteration
\* ------------------------------------------------------------------------

\* configure, folder checks, output folder, glob("*.pdf").
Start ==
  /\ pc = "start"
  /\ pc' = IF ~folder.exists
           THEN IF script \in ChecksFolder THEN "done" ELSE "crashed"
           ELSE IF folder.n = 0 /\ script \in ChecksEmpty THEN "done"
           ELSE "loop"
  /\ UNCHANGED <<script, folder, history, i, pdf_file, remote, response, df_bound, exc,
                 files, all_data, summary_data, log, xvars>>

\* for pdf_path in pdf_files:  (and  pdf_file = None  where the script has it)
LoopHead ==
  /\ pc \in {"loop", "iter_done"}
  /\ IF i < folder.n
     THEN /\ i' = i + 1
          /\ pc' = "upload"
          /\ pdf_file' = IF script \in ResetsPdfFile THEN PyNone ELSE pdf_file
          /\ log' = <<>>
          /\ response' = NoText
          /\ history' = Append(history, [completion |-> NoText, processed |-> "no"])
     ELSE /\ pc' = "after_loop"
          /\ UNCHANGED <<i, pdf_file, log, response, history>>
  /\ UNCHANGED <<script, folder, remote, df_bound, exc, files, all_data,
                 summary_data, xvars>>

\* pdf_file = genai.upload_file(path=pdf_path)
Upload ==
  /\ pc = "upload"
  /\ \/ \E st \in States :
          /\ pdf_file' = File(i, st)
          /\ remote' = remote \cup {i}
          /\ log' = Append(log, Call("upload_file", i, st))
          /\ pc' = "poll"
     \/ /\ log' = Append(log, Call("upload_file", 0, "raise"))
        /\ pc' = "except"
        /\ UNCHANGED <<pdf_file, remote>>
  /\ UNCHANGED <<script, folder, history, i, response, df_bound, exc, files, all_data,
                 summary_data, xvars>>

NPolls == Cardinality({k \in 1..Len(log) : log[k].op = "get_file"})

\* A readiness loop that gives up at once.
GivesUp(f) == FALSE

\* The condition of  while pdf_file.state.name == "PROCESSING".
StillPolling(f) == f.state = "PROCESSING"

\* One turn of the loop: sleep, pdf_file = genai.get_file(name=pdf_file.name)
Poll ==
  /\ pc = "poll"
  /\ StillPolling(pdf_file)
  /\ \/ \E st \in States :
          /\ st = "PROCESSING" => NPolls + 1 < MaxPolls
          /\ pdf_file' = File(pdf_file.id, st)
          /\ log' = Append(log, Call("get_file", pdf_file.id, st))
          /\ pc' = "poll"
     \/ /\ log' = Append(log, Call("get_file", pdf_file.id, "raise"))
        /\ pc' = "except"
        /\ UNCHANGED pdf_file
  /\ UNCHANGED <<script, folder, history, i, remote, response, df_bound, exc, files,
                 all_data, summary_data, xvars>>

\* Where  continue  leads: to the finally clause, or to the next iteration.
AfterBody == IF script \in HasFinally THEN "finally" ELSE "iter_done"

\* A looser readiness test: any state that ended the polling.
NotProcessing(f) == f.state # "PROCESSING"

\* The test of  if pdf_file.state.name != "ACTIVE".
IsActive(f) == f.state = "ACTIVE"

\* if pdf_file.state.name != "ACTIVE": ...   (the loop has ended)
CheckActive ==
  /\ pc = "poll"
  /\ ~StillPolling(pdf_file)
  /\ IF IsActive(pdf_file)
     THEN pc' = "generate" /\ UNCHANGED <<remote, log>>
     ELSE IF script = "Report"
     THEN \* genai.delete_file(name=pdf_file.name); continue
          \/ /\ remote' = remote \ {pdf_file.id}
             /\ log' = Append(log, Call("delete_file", pdf_file.id, "ok"))
             /\ pc' = "finally"
          \/ /\ log' = Append(log, Call("delete_file", pdf_file.id, "raise"))
             /\ pc' = "except"
             /\ UNCHANGED remote
     ELSE IF script \in {"Analysis", "EnergyInventory"}
     THEN \* try: delete_file  except: print;  continue
          \/ /\ remote' = remote \ {pdf_file.id}
             /\ log' = Append(log, Call("delete_file", pdf_file.id, "ok"))
             /\ pc' = "finally"
          \/ /\ log' = Append(log, Call("delete_file", pdf_file.id, "raise"))
             /\ pc' = "finally"
             /\ UNCHANGED remote
     ELSE IF script = "PromptValidation"
     THEN \* raise Exception("File processing failed ...")
          pc' = "except" /\ UNCHANGED <<remote, log>>
     ELSE \* continue
          pc' = AfterBody /\ UNCHANGED <<remote, log>>
  /\ UNCHANGED <<script, folder, history, i, pdf_file, response, df_bound, exc, files,
                 all_data, summary_data, xvars>>

\* response = model.generate_content([prompt, pdf_file])
Generate ==
  /\ pc = "generate"
  /\ \/ \E r \in Responses(script) :
          /\ response' = r
          /\ history' = [history EXCEPT ![i].completion = r]
          /\ log' = Append(log, Call("generate_content", pdf_file.id, "ok"))
          /\ pc' = "process"
     \/ /\ log' = Append(log, Call("generate_content", pdf_file.id, "raise"))
        /\ pc' = "except"
        /\ UNCHANGED <<response, history>>
  /\ UNCHANGED <<script, folder, i, pdf_file, remote, df_bound, exc, files,
                 all_data, summary_data, xvars>>

\* ------------------------------------------------------------------------
\* The per-document processing of each script, as a function of the
\* completion, the document and the set io of local writes that fail
\* ------------------------------------------------------------------------

FileRec(d, path, form, txt, data) ==
  [doc |-> d, path |-> path, form |-> form, text |-> txt, data |-> data]

Entry(d, rec) == [src |-> d, rec |-> rec]

\* The outcome of the statements between generate_content and the end of the
\* try body: out is "normal" (fell through, or continue) or "raise".
Outcome(out, fs, data, df, summ) ==
  [out |-> out, files |-> fs, data |-> data, df |-> df, summary |-> summ]

\* bool(response.text)
HasText(resp) == ~resp.absent /\ resp.text # <<>>

\* --- ExtractScope123Emissions.getScores, GeminiAPIExtractActions.getScores

\* A test that finds no data suitable for a table.
NotTabular(v) == FALSE

\* isinstance(data, list) and data and isinstance(data[0], dict)
Tabular(v) == v.t = "arr" /\ Len(v.items) > 0 /\ v.items[1].t = "obj"

AllObjects(v) == \A k \in 1..Len(v.items) : v.items[k].t = "obj"

\* The inner  except Exception  of the script: write <stem>_RAW.txt.
ScopeFallback(d, raw, io, fs, df) ==
  IF "raw" \in io THEN Outcome("raise", fs, <<>>, df, <<>>)
  ELSE Outcome("normal", fs \cup {FileRec(d, "RAW.txt", "text", raw, NoneV)},
               <<>>, df, <<>>)

\* From json.loads of the matched block to the end of the inner try.
ScopeParsed(raw, j, d, io, df) ==
  IF ~j.ok \/ "json" \in io THEN ScopeFallback(d, raw, io, {}, df)
  ELSE IF ~Tabular(j.v)
  THEN Outcome("normal", {FileRec(d, "json", "json", <<>>, j.v)}, <<>>, df, <<>>)
  ELSE IF "frame" \in io /\ ~AllObjects(j.v)
  THEN ScopeFallback(d, raw, io, {FileRec(d, "json", "json", <<>>, j.v)}, df)
  ELSE IF "xlsx" \in io
  THEN ScopeFallback(d, raw, io, {FileRec(d, "json", "json", <<>>, j.v)}, TRUE)
  ELSE Outcome("normal", {FileRec(d, "json", "json", <<>>, j.v),
                          FileRec(d, "xlsx", "table", <<>>, j.v)},
               <<>>, TRUE, <<>>)

\* match = re.search(...); if not match: write the raw text and continue.
ScopeMatched(raw, m, d, io, df) ==
  IF ~m.found THEN ScopeFallback(d, raw, io, {}, df)
  ELSE ScopeParsed(raw, json_loads(group0(raw, m)), d, io, df)

ScopeText(raw, d, io, df) == ScopeMatched(raw, re_search_array(raw), d, io, df)

ScopeProcess(resp, d, io, df) ==
  IF resp.absent THEN Outcome("raise", {}, <<>>, df, <<>>)
  ELSE ScopeText(strip(resp.text), d, io, df)

\* --- GeminiAPIReport.getScores

RECURSIVE Serializable(_)
\* json.dump accepts lists, tuples, dicts with str/int/None keys, and atoms.
Serializable(v) ==
  /\ v.t # "set"
  /\ \A k \in 1..Len(v.keys) : v.keys[k].t \in {"str", "num", "none"}
  /\ \A k \in 1..Len(v.items) : Serializable(v.items[k])

\* Decimal value of a digit chunk sequence.
RECURSIVE NumVal(_)
NumVal(ds) ==
  IF ds = <<>> THEN 0
  ELSE 10 * NumVal(SubSeq(ds, 1, Len(ds) - 1)) +
       (CASE ds[Len(ds)] = "0" -> 0 [] ds[Len(ds)] = "1" -> 1
          [] ds[Len(ds)] = "2" -> 2 [] OTHER -> 3)

\* The category a question id falls in: qid.startswith("1.") ... ("4."),
\* decided on the first chunk of the id; 0 when no prefix applies.
QidCategory(qs) ==
  IF qs = <<>> THEN 0
  ELSE CASE qs[1] \in {"1.1", "1.2"} -> 1
         [] qs[1] \in {"2.1"} -> 2
         [] qs[1] \in {"3.1"} -> 3
         [] qs[1] \in {"4.1"} -> 4
         [] OTHER -> 0

RECURSIVE ScoreItems(_, _, _)
\* The  for item in analysis_data  loop: the four category sums, or a raise.
ScoreItems(items, k, acc) ==
  IF k > Len(items) THEN [ok |-> TRUE, scores |-> acc]
  ELSE LET item == items[k]
       IN IF item.t # "obj" THEN [ok |-> FALSE, scores |-> acc]
          ELSE LET qid == DictGet(item, "question_id", StrV(<<"N/A">>))
                   score == DictGet(item, "score", NumV(<<"0">>))
               IN IF qid.t # "str" THEN [ok |-> FALSE, scores |-> acc]
                  ELSE LET c == QidCategory(qid.s)
                       IN IF c = 0 THEN ScoreItems(items, k + 1, acc)
                          ELSE IF score.t # "num"
                               THEN [ok |-> FALSE, scores |-> acc]
                          ELSE ScoreItems(items, k + 1,
                                 [acc EXCEPT ![c] = @ + NumVal(score.s)])

SummaryRow(d, sc) ==
  [City |-> d, scores |-> sc, Total |-> sc[1] + sc[2] + sc[3] + sc[4]]

\* The completion text as the model returned it, not stripped.
TextAsReturned(resp) == IF HasText(resp) THEN resp.text ELSE <<>>

\* raw_text = response.text.strip() if response.text else ""
ReportRawText(resp) == IF HasText(resp) THEN strip(resp.text) ELSE <<>>

\* A report step that appends the summary row whatever happened before.
RowRegardless(data, sc, d, io) ==
  Outcome("normal", {FileRec(d, "analysis.json", "json", <<>>, data)},
          <<>>, FALSE, <<SummaryRow(d, sc.scores)>>)

\* From the scores of the items to the summary row.
ReportScored(data, sc, d, io) ==
  IF ~sc.ok \/ "docx" \in io
  THEN Outcome("raise", {FileRec(d, "analysis.json", "json", <<>>, data)},
               <<>>, FALSE, <<>>)
  ELSE Outcome("normal", {FileRec(d, "analysis.json", "json", <<>>, data),
                          FileRec(d, "analysis.docx", "docx", <<>>, data)},
               <<>>, FALSE, <<SummaryRow(d, sc.scores)>>)

\* From the return of extract_json_from_response to the end of the try body.
ReportExtracted(raw, data, d, io) ==
  IF "json" \in io THEN Outcome("raise", {}, <<>>, FALSE, <<>>)
  ELSE IF data = NoneV
  THEN Outcome("normal", {FileRec(d, "analysis.json", "text", raw, NoneV)},
               <<>>, FALSE, <<>>)
  ELSE IF ~Serializable(data)
  THEN Outcome("raise", {FileRec(d, "analysis.json", "partial", <<>>, NoneV)},
               <<>>, FALSE, <<>>)
  ELSE IF data.t # "arr"
  THEN Outcome("normal", {FileRec(d, "analysis.json", "json", <<>>, data)},
               <<>>, FALSE, <<>>)
  ELSE ReportScored(data, ScoreItems(data.items, 1, <<0, 0, 0, 0>>), d, io)

ReportText(raw, d, io) ==
  ReportExtracted(raw, extract_json_from_response(raw), d, io)

ReportProcess(resp, d, io) == ReportText(ReportRawText(resp), d, io)

\* --- extract_prioritized_actions, extract_ghg_percentages

\* "Sector" in item, for the item types json.loads produces; "raise" when the
\* test itself raises TypeError.
SectorIn(item) ==
  CASE item.t = "obj" -> IF HasKey(item, "Sector") THEN "yes" ELSE "no"
    [] item.t = "str" -> IF \E k \in 1..Len(item.s) : item.s[k] = "Sector"
                         THEN "yes" ELSE "no"
    [] item.t = "arr" -> IF \E k \in 1..Len(item.items) :
                              item.items[k] = StrV(<<"Sector">>)
                         THEN "yes" ELSE "no"
    [] OTHER -> "raise"

\* item["Document Name"] = item.get("Document Name", pdf_path.name)
WithDocumentName(item, d) ==
  DictPut(item, StrV(<<"Document Name">>),
          DictGet(item, "Document Name", StrV(PdfName(d))))

RECURSIVE SectorItems(_, _, _, _)
\* The  for item in extracted  loop up to its end or its first exception.
SectorItems(items, k, d, acc) ==
  IF k > Len(items) THEN acc
  ELSE LET t == SectorIn(items[k])
       IN IF t = "raise" THEN acc
          ELSE IF t = "no" THEN SectorItems(items, k + 1, d, acc)
          ELSE IF items[k].t # "obj" THEN acc
          ELSE SectorItems(items, k + 1, d,
                           Append(acc, Entry(d, WithDocumentName(items[k], d))))

\* try: extracted = json.loads(match.group(0)); for item in extracted: ...
PrioritizedParsed(j, d) ==
  IF j.ok /\ j.v.t = "arr"
  THEN Outcome("normal", {}, SectorItems(j.v.items, 1, d, <<>>), FALSE, <<>>)
  ELSE Outcome("normal", {}, <<>>, FALSE, <<>>)

\* if match: ...   (nothing is written when there is no match)
PrioritizedText(raw, d) == PrioritizedParsed(ParseBlock(raw, re_search_array(raw)), d)

PrioritizedProcess(resp, d, io) ==
  IF resp.absent THEN Outcome("raise", {}, <<>>, FALSE, <<>>)
  ELSE PrioritizedText(strip(resp.text), d)

\* --- extract_actions_and_categorize

\* str.title() on the words the completions use.
TitleWord(w) ==
  CASE w = "w" -> "W" [] w = "v" -> "V" [] w = "u" -> "U"
    [] w = "waste" -> "Waste" [] w = "transport" -> "Transport"
    [] w = "action" -> "Action" [] OTHER -> w

title(t) == [k \in 1..Len(t) |-> TitleWord(t[k])]

ActionKeys == <<"action", "category", "village_name", "report_date">>

\* Every item.get(key, "") of the loop body yields a string.
ActionFieldsOk(item) ==
  \A k \in 1..4 : DictGet(item, ActionKeys[k], StrV(<<>>)).t = "str"

ActionRecord(item, d) ==
  ObjV(<<StrV(<<"Action">>), StrV(<<"Category">>), StrV(<<"Village Name">>),
         StrV(<<"Report Date">>), StrV(<<"Source PDF">>)>>,
       <<StrV(strip(DictGet(item, "action", StrV(<<>>)).s)),
         StrV(title(strip(DictGet(item, "category", StrV(<<>>)).s))),
         StrV(strip(DictGet(item, "village_name", StrV(<<>>)).s)),
         StrV(strip(DictGet(item, "report_date", StrV(<<>>)).s)),
         StrV(PdfName(d))>>)

RECURSIVE ActionItems(_, _, _, _)
\* The  for item in extracted  loop up to its end or its first exception.
ActionItems(items, k, d, acc) ==
  IF k > Len(items) THEN acc
  ELSE IF items[k].t # "obj" \/ ~ActionFieldsOk(items[k]) THEN acc
  ELSE IF strip(DictGet(items[k], "action", StrV(<<>>)).s) = <<>>
       THEN ActionItems(items, k + 1, d, acc)
  ELSE ActionItems(items, k + 1, d,
                   Append(acc, Entry(d, ActionRecord(items[k], d))))

\* try: extracted = json.loads(match.group(0)); for item in extracted: ...
CategorizeParsed(j, d) ==
  IF j.ok /\ j.v.t = "arr"
  THEN Outcome("normal", {}, ActionItems(j.v.items, 1, d, <<>>), FALSE, <<>>)
  ELSE Outcome("normal", {}, <<>>, FALSE, <<>>)

\* if match: ... else: write the raw response for debugging
CategorizeMatched(raw, m, d, io) ==
  IF m.found THEN CategorizeParsed(json_loads(group0(raw, m)), d)
  ELSE IF "raw" \in io THEN Outcome("raise", {}, <<>>, FALSE, <<>>)
  ELSE Outcome("normal", {FileRec(d, "gemini_raw.txt", "text", raw, NoneV)},
               <<>>, FALSE, <<>>)

CategorizeText(raw, d, io) == CategorizeMatched(raw, re_search_array(raw), d, io)

CategorizeProcess(resp, d, io) ==
  IF resp.absent THEN Outcome("raise", {}, <<>>, FALSE, <<>>)
  ELSE CategorizeText(strip(resp.text), d, io)

\* --- cluster_energy_actions

RECURSIVE split(_, _)
\* str.split(sep): the pieces between occurrences of the chunk sep.
split(t, sep) ==
  LET S == {q \in 1..Len(t) : t[q] = sep}
  IN IF S = {} THEN <<t>>
     ELSE <<SubSeq(t, 1, MinOf(S) - 1)>> \o
          split(SubSeq(t, MinOf(S) + 1, Len(t)), sep)

\* [part.strip() for part in line.split("|")[1:-1]]
TableCells(line) ==
  LET ps == split(line, "|")
  IN [k \in 1..(Len(ps) - 2) |-> strip(ps[k + 1])]

\* if "|" in line and not line.startswith("| Category") ... len(parts) == 4
IsDataRow(line) ==
  /\ \E k \in 1..Len(line) : line[k] = "|"
  /\ ~startswith(line, <<"|", " ", "Category">>)
  /\ Len(TableCells(line)) = 4

RECURSIVE TableRows(_, _, _, _)
TableRows(lines, k, d, acc) ==
  IF k > Len(lines) THEN acc
  ELSE IF IsDataRow(lines[k])
       THEN TableRows(lines, k + 1, d,
              Append(acc, Entry(d, ArrV([c \in 1..5 |->
                IF c = 5 THEN StrV(PdfName(d))
                ELSE StrV(TableCells(lines[k])[c])]))))
  ELSE TableRows(lines, k + 1, d, acc)

ClusteringProcess(resp, d, io) ==
  IF HasText(resp)
  THEN Outcome("normal", {},
               TableRows(split(strip(resp.text), "\n"), 1, d, <<>>),
               FALSE, <<>>)
  ELSE Outcome("normal", {}, <<>>, FALSE, <<>>)

\* --- the scripts that save the completion as a document

DocProcess(resp, d, io, path) ==
  IF ~HasText(resp) THEN Outcome("normal", {}, <<>>, FALSE, <<>>)
  ELSE IF path \in io THEN Outcome("raise", {}, <<>>, FALSE, <<>>)
  ELSE Outcome("normal", {FileRec(d, path, path, strip(resp.text), NoneV)},
               <<>>, FALSE, <<>>)

\* report_check.analyze_reports_in_folder: summaries.append({...})
SummariesProcess(resp, d, io) ==
  IF ~HasText(resp) THEN Outcome("normal", {}, <<>>, FALSE, <<>>)
  ELSE Outcome("normal", {},
               <<Entry(d, ObjV(<<StrV(<<"file">>), StrV(<<"summary">>)>>,
                               <<StrV(PdfName(d)), StrV(strip(resp.text))>>))>>,
               FALSE, <<>>)

\* The local writes of each script that may fail.
WriteKinds(s) ==
  CASE s \in {"Scope123", "ExtractActions"} -> {"raw", "json", "frame", "xlsx"}
    [] s = "Report" -> {"json", "docx"}
    [] s = "Categorize" -> {"raw"}
    [] s \in {"Analysis", "EnergyInventory", "Prompt_validation"} -> {"docx"}
    [] s = "PromptValidation" -> {"xlsx"}
    [] OTHER -> {}

ProcessDoc(s, resp, d, io, df) ==
  CASE s \in {"Scope123", "ExtractActions"} -> ScopeProcess(resp, d, io, df)
    [] s = "Report" -> ReportProcess(resp, d, io)
    [] s \in {"Prioritized", "GHG"} -> PrioritizedProcess(resp, d, io)
    [] s = "Categorize" -> CategorizeProcess(resp, d, io)
    [] s = "Clustering" -> ClusteringProcess(resp, d, io)
    [] s \in {"Analysis", "EnergyInventory", "Prompt_validation"} ->
         DocProcess(resp, d, io, "docx")
    [] s = "PromptValidation" -> DocProcess(resp, d, io, "xlsx")
    [] OTHER -> SummariesProcess(resp, d, io)

\* ------------------------------------------------------------------------
\* The rest of one iteration
\* ------------------------------------------------------------------------

\* The effect of one document's outcome r on the program state.
Record(r) ==
  /\ files' = files \cup r.files
  /\ all_data' = all_data \o r.data
  /\ summary_data' = summary_data \o r.summary
  /\ df_bound' = (df_bound \/ r.df)
  /\ history' = [history EXCEPT ![i].processed = r.out]
  /\ log' = IF r.out = "raise" THEN Append(log, Call("process", i, "raise"))
            ELSE log
  /\ pc' = IF r.out = "raise" THEN "except"
           ELSE IF script \in HasFinally THEN "finally"
           ELSE "end_try"

\* From the completion to the end of the try body (the trailing delete_file
\* of the scripts without finally is the next step).
Process ==
  /\ pc = "process"
  /\ \E io \in SUBSET WriteKinds(script) :
       Record(ProcessDoc(script, response, i, io, df_bound))
  /\ UNCHANGED <<script, folder, i, pdf_file, remote, response, exc, xvars>>

\* genai.delete_file(name=h): it succeeds or raises.
DeleteOk(h) ==
  /\ remote' = remote \ {h}
  /\ log' = Append(log, Call("delete_file", h, "ok"))

DeleteRaises(h) ==
  /\ log' = Append(log, Call("delete_file", h, "raise"))
  /\ UNCHANGED remote

\* The last statement of the try body in the scripts without finally:
\* genai.delete_file(name=pdf_file.name)
EndTryDelete ==
  /\ pc = "end_try"
  /\ \/ DeleteOk(pdf_file.id) /\ pc' = "iter_done"
     \/ DeleteRaises(pdf_file.id) /\ pc' = "except"
  /\ UNCHANGED <<script, folder, history, i, pdf_file, response, df_bound, exc, files,
                 all_data, summary_data, xvars>>

\* A cleanup guard that never finds a handle.
NeverHolds(f) == FALSE

\* if pdf_file and hasattr(pdf_file, 'name')
HoldsFile(f) == f.b = "file"

\* except Exception as e: ...
Except ==
  /\ pc = "except"
  /\ IF script \in {"Scope123", "ExtractActions"}
     THEN \* print(df): UnboundLocalError while df was never assigned
          /\ exc' = ~df_bound
          /\ pc' = "finally"
          /\ UNCHANGED <<remote, log>>
     ELSE IF script \in {"Clustering", "Categorize"}
     THEN \* if pdf_file ...: try: delete_file  except: pass
          /\ IF HoldsFile(pdf_file)
             THEN DeleteOk(pdf_file.id) \/ DeleteRaises(pdf_file.id)
             ELSE UNCHANGED <<remote, log>>
          /\ pc' = "iter_done"
          /\ UNCHANGED exc
     ELSE /\ pc' = AfterBody
          /\ UNCHANGED <<remote, log, exc>>
  /\ UNCHANGED <<script, folder, history, i, pdf_file, response, df_bound, files,
                 all_data, summary_data, xvars>>

\* finally: the guarded, best-effort delete_file; then the pending exception,
\* if any, leaves the function.
Finally ==
  /\ pc = "finally"
  /\ IF script = "report_check"
     THEN \* try: delete_file(pdf_file.name)  except: print   (no guard)
          IF pdf_file.b = "file"
          THEN DeleteOk(pdf_file.id) \/ DeleteRaises(pdf_file.id)
          ELSE UNCHANGED <<remote, log>>
     ELSE IF HoldsFile(pdf_file)
          THEN DeleteOk(pdf_file.id) \/ DeleteRaises(pdf_file.id)
          ELSE UNCHANGED <<remote, log>>
  /\ pc' = IF exc THEN "crashed" ELSE "iter_done"
  /\ UNCHANGED <<script, folder, history, i, pdf_file, response, df_bound, exc, files,
                 all_data, summary_data, xvars>>

\* df["Sector"].str: AttributeError when the column holds numbers only.
StrAccessorRaises(data) ==
  \A k \in 1..Len(data) : DictGet(data[k].rec, "Sector", NoneV).t = "num"

\* df["Sector"] = df["Sector"].str.title(): a value that is not a string
\* becomes a missing value.
TitledSector(rec) ==
  LET v == DictGet(rec, "Sector", NoneV)
  IN DictPut(rec, StrV(<<"Sector">>),
             IF v.t = "str" THEN StrV(title(v.s)) ELSE NoneV)

KnownCategories ==
  {StrV(<<"Stationary", " ", "Energy">>), StrV(<<"Waste">>),
   StrV(<<"Transport">>)}

\* df["Category"].where(df["Category"].isin([...]), "Other")
CategoryOrOther(rec) ==
  IF DictGet(rec, "Category", NoneV) \in KnownCategories THEN rec
  ELSE DictPut(rec, StrV(<<"Category">>), StrV(<<"Other">>))

\* The row of the batch output for an accumulated record.
BatchRow(s, rec) ==
  CASE s \in {"Prioritized", "GHG"} -> TitledSector(rec)
    [] s = "Categorize" -> CategoryOrOther(rec)
    [] OTHER -> rec

\* Building the frame of the batch output raises.
BatchRaises ==
  script \in {"Prioritized", "GHG"} /\ all_data # <<>>
  /\ StrAccessorRaises(all_data)

\* The batch output written after the loop, if the script has one to write.
BatchFile ==
  IF script \in {"Prioritized", "GHG", "Clustering", "Categorize"}
     /\ all_data # <<>>
  THEN {FileRec(0, "batch.xlsx", "table", <<>>,
                ArrV([k \in 1..Len(all_data) |->
                        BatchRow(script, all_data[k].rec)]))}
  ELSE IF script = "Report" /\ summary_data # <<>>
  THEN {FileRec(0, "analysis_scores.xlsx", "table", <<>>, NoneV)}
  ELSE {}

\* After the loop: the batch output is written, or writing it raises.
AfterLoop ==
  /\ pc = "after_loop"
  /\ \/ ~BatchRaises /\ files' = files \cup BatchFile /\ pc' = "done"
     \/ BatchFile # {} /\ pc' = "crashed" /\ UNCHANGED files
  /\ UNCHANGED <<script, folder, history, i, pdf_file, remote, response, df_bound, exc,
                 all_data, summary_data, log, xvars>>

Next ==
  \/ Start \/ LoopHead \/ Upload \/ Poll \/ CheckActive \/ Generate
  \/ Process \/ EndTryDelete \/ Except \/ Finally \/ AfterLoop

Spec == Init /\ [][Next]_vars

\* ------------------------------------------------------------------------
\* The extraction on its own: extract_json_from_response, and the step of
\* GeminiAPIReport.getScores that calls it, on texts drawn from bounded sets
\* ------------------------------------------------------------------------

\* Longest text enumerated chunk by chunk.
MaxLen == 4

\* Most records in a generated array.
MaxRecords == 2

XAlphabet == {"[", "]", "{", "}", "'", " ", "1", "w", FENCE}

ShortTexts == UNION {[1..n -> XAlphabet] : n \in 0..MaxLen}

RECURSIVE Render(_), RenderElems(_, _), RenderMembers(_, _)
\* The compact JSON text of a value.
Render(v) ==
  CASE v.t = "num" -> v.s
    [] v.t = "str" -> <<Q>> \o v.s \o <<Q>>
    [] v.t = "arr" -> <<"[">> \o RenderElems(v.items, 1) \o <<"]">>
    [] v.t = "obj" -> <<"{">> \o RenderMembers(v, 1) \o <<"}">>
    [] OTHER -> <<"null">>

RenderElems(items, k) ==
  IF k > Len(items) THEN <<>>
  ELSE Render(items[k]) \o (IF k < Len(items) THEN <<",", " ">> ELSE <<>>)
       \o RenderElems(items, k + 1)

RenderMembers(v, k) ==
  IF k > Len(v.keys) THEN <<>>
  ELSE Render(v.keys[k]) \o <<":", " ">> \o Render(v.items[k])
       \o (IF k < Len(v.keys) THEN <<",", " ">> ELSE <<>>)
       \o RenderMembers(v, k + 1)

XObject(v) == ObjV(<<StrV(<<"a">>)>>, <<v>>)

XAtoms == {NumV(<<"1">>), StrV(<<"w">>), StrV(<<"}", "]">>)}

\* The values of the generated records: atoms, and arrays and objects of them,
\* one of them an array of objects.
XValues ==
  XAtoms \cup {ArrV(<<a>>) : a \in XAtoms} \cup {XObject(a) : a \in XAtoms}
  \cup {ArrV(<<XObject(a)>>) : a \in XAtoms}

XRecords == {XObject(v) : v \in XValues}

XArrays == {ArrV(r) : r \in UNION {[1..n -> XRecords] : n \in 1..MaxRecords}}

\* Prose without brackets, before and after an array.
ProseBefore == {<<>>, <<"w", " ">>, <<"w", ":", "\n">>}

ProseAfter == {<<>>, <<" ", "w">>, <<"\n", "w", ",", " ", "w">>}

FramedArrays ==
  {p \o Render(a) \o q : p \in ProseBefore, a \in XArrays, q \in ProseAfter}

\* Texts that are, or hold, the literal for "no value" of JSON or of Python.
NullTexts ==
  {<<"null">>, <<" ", "null", "\n">>, <<"None">>, <<"w", " ", "null">>,
   <<FENCE, "json", "\n", "null", "\n", FENCE>>, <<FENCE, "None", FENCE>>,
   <<"[", "null", "]">>, <<"[", "None", "]">>}

\* First blocks of a text with several blocks: valid JSON, not JSON but a
\* Python literal, neither.
FirstBlocks ==
  {Render(ArrV(<<XObject(NumV(<<"1">>))>>)),
   <<"[", "{", "'", "a", "'", ":", " ", "1", "}", "]">>,
   <<"[", "{", "w", "}", "]">>}

LaterBlocks == {Render(ArrV(<<r>>)) : r \in XRecords}

BlockSeparators == {<<" ">>, <<",", " ">>, <<" ", "w", " ">>}

\* Two blocks one after the other, as they are or inside one more pair of
\* brackets.
GroupTexts ==
  LET pairs == {a \o sep \o b :
                  a \in FirstBlocks, sep \in BlockSeparators, b \in LaterBlocks}
  IN pairs \cup {<<"[">> \o t \o <<"]">> : t \in pairs}

InitExtract ==
  /\ text \in ShortTexts \cup FramedArrays \cup NullTexts \cup GroupTexts
  /\ result = NoneV
  /\ artifact = NoArtifact
  /\ phase = "given"
  /\ script = "Report"
  /\ folder = [exists |-> TRUE, n |-> 1]
  /\ pc = "process"
  /\ i = 1
  /\ pdf_file = File(1, "ACTIVE")
  /\ remote = {1}
  /\ response = NoText
  /\ df_bound = FALSE
  /\ exc = FALSE
  /\ files = {}
  /\ all_data = <<>>
  /\ summary_data = <<>>
  /\ log = <<>>
  /\ history = <<>>

\* extract_json_from_response(text)
CallExtract ==
  /\ phase = "given"
  /\ result' = extract_json_from_response(text)
  /\ phase' = "extracted"
  /\ UNCHANGED <<text, artifact, pvars>>

\* What the step left in  <stem>_analysis.json.
ArtifactOf(fs) ==
  IF \E f \in fs : f.path = "analysis.json"
  THEN LET f == CHOOSE g \in fs : g.path = "analysis.json"
       IN [written |-> TRUE, form |-> f.form, content |-> f.text]
  ELSE NoArtifact

\* getScores from  raw_text = ...  to the end of the try body, for a
\* completion whose text is  text.
ReportStep ==
  /\ phase = "given"
  /\ \E io \in SUBSET WriteKinds("Report") :
       /\ artifact' = ArtifactOf(ReportProcess(Resp(text), 1, io).files)
       /\ phase' = IF "json" \in io THEN "write_failed" ELSE "reported"
  /\ result' = extract_json_from_response(ReportRawText(Resp(text)))
  /\ UNCHANGED <<text, pvars>>

\* ExtractScope123Emissions.getScores from  raw_text = ...  to the end of the
\* try body, for a completion whose text is  text, every write succeeding.
ScopeStep ==
  /\ phase = "given"
  /\ files' = ScopeProcess(Resp(text), 1, {}, FALSE).files
  /\ phase' = "scoped"
  /\ UNCHANGED <<script, folder, pc, i, pdf_file, remote, response, df_bound,
                 exc, all_data, summary_data, log, history, text, result,
                 artifact>>

NextExtract == CallExtract \/ ReportStep \/ ScopeStep

SpecExtract == InitExtract /\ [][NextExtract]_vars

\* ------------------------------------------------------------------------
\* Polling without the bound: the remote service may report PROCESSING for
\* as long as it likes.  The log keeps the first MaxPolls polls only.
\* ------------------------------------------------------------------------

\* time.sleep(5) of a turn of the loop that the log no longer records.
Sleep ==
  /\ pc = "poll"
  /\ StillPolling(pdf_file)
  /\ NPolls + 1 >= MaxPolls
  /\ pc' = "sleep"
  /\ UNCHANGED <<script, folder, history, i, pdf_file, remote, response,
                 df_bound, exc, files, all_data, summary_data, log, xvars>>

\* pdf_file = genai.get_file(name=pdf_file.name), reporting PROCESSING again.
PollAgain ==
  /\ pc = "sleep"
  /\ pdf_file' = File(pdf_file.id, "PROCESSING")
  /\ pc' = "poll"
  /\ UNCHANGED <<script, folder, history, i, remote, response, df_bound, exc,
                 files, all_data, summary_data, log, xvars>>

\* The two scripts whose loops are followed to their end.
LiveScripts == {"Categorize", "PromptValidation"}

InitLive == Init /\ script \in LiveScripts

NextLive == Next \/ Sleep \/ PollAgain

\* Every step but Process.
Control ==
  \/ Start \/ LoopHead \/ Upload \/ Poll \/ CheckActive \/ Generate
  \/ EndTryDelete \/ Except \/ Finally \/ AfterLoop \/ Sleep \/ PollAgain

\* What every Process step does to the position of the script.
Processed == pc = "process" /\ pc' \in {"except", "finally", "end_try"}

\* The script is a sequential program: it takes its next step whenever it
\* has one (Process is enabled whenever pc = "process", so its fairness is
\* stated on the change of position).  Nothing is assumed about what the
\* remote service reports.
SpecLive ==
  InitLive /\ [][NextLive]_vars /\ WF_vars(Control) /\ WF_pc(Processed)

\* ------------------------------------------------------------------------
\* score_report.analyze_questionnaire_reports: one scoring file per
\* community, read back and extended when it exists
\* ------------------------------------------------------------------------

\* The label i.j of a sub-question, with the colon the pattern appends.
LabelChunks ==
  << <<"1.1:", "1.2:", "1.3:", "1.4:", "1.5:", "1.6:", "1.7:">>,
     <<"2.1:", "2.2:", "2.3:", "2.4:", "2.5:", "2.6:", "2.7:">>,
     <<"3.1:", "3.2:", "3.3:", "3.4:", "3.5:", "3.6:", "3.7:">>,
     <<"4.1:", "4.2:", "4.3:", "4.4:", "4.5:", "4.6:", "4.7:">> >>

\* zip(range(1, 5), [7, 7, 5, 5])
QuestionCounts == <<7, 7, 5, 5>>

\* The labels of section s: i.1 .. i.n
SectionLabels(s, n) == SubSeq(LabelChunks[s], 1, n)

\* questions = [f"{i}.{j}" for i, n in zip(...) for j in range(1, n + 1)]
Questions ==
  SectionLabels(1, QuestionCounts[1]) \o SectionLabels(2, QuestionCounts[2])
  \o SectionLabels(3, QuestionCounts[3]) \o SectionLabels(4, QuestionCounts[4])

\* categories: questions[0:7], questions[7:14], questions[14:19],
\* questions[19:24]
CategorySlices == << <<0, 7>>, <<7, 14>>, <<14, 19>>, <<19, 24>> >>

\* q[a:b]
PySlice(q, a, b) == SubSeq(q, a + 1, MinOf({b, Len(q)}))

\* The labels the prompt asks the model for: 1.1 to 1.7, 2.1 to 2.7,
\* 3.1 to 3.6, 4.1 to 4.5.
PromptCounts == <<7, 7, 6, 5>>

PromptLabels ==
  UNION {{LabelChunks[s][j] : j \in 1..PromptCounts[s]} : s \in 1..4}

\* docx_path.stem
DocxStem(d) ==
  <<IF d = 1 THEN "A_analysis" ELSE IF d = 2 THEN "B_analysis"
    ELSE "C_analysis">>

QNames == {<<"A">>, <<"NA">>, <<"A", "/", "B">>}

QText(name, sc) ==
  <<"Community Name:", " ">> \o name
  \o <<"\n", "1.1:", " ", sc, "\n", "1.2:", " ", "1">>

\* The completions the script is run against: an absent text, scores without
\* a name, and scores under each name.
\* A completion with scores for labels of three sections, 3.6 among them.
QLabelled ==
  <<"Community Name:", " ", "B", "\n", "1.1:", " ", "1", "\n",
    "3.5:", " ", "1", "\n", "3.6:", " ", "2", "\n", "4.5:", " ", "3">>

QResponses ==
  {NoText, Resp(<<"1.1:", " ", "1">>), Resp(QText(<<"A">>, "0")),
   Resp(QLabelled)}
  \cup {Resp(QText(n, "1")) : n \in QNames}

\* Where group 1 of  Community Name:\s*(.+)  starts for the label at p: \s*
\* takes as much whitespace as leaves a character other than a newline to
\* (.+); 0 when there is none.
NameStart(t, p) ==
  LET j == SkipWs(t, p + 1)
      C == {q \in (p + 1)..MinOf({j, Len(t)}) : t[q] # "\n"}
  IN IF C = {} THEN 0 ELSE MaxOf(C)

\* (.+) runs to the end of the line.
LineEnd(t, q) ==
  LET N == {e \in q..Len(t) : t[e] = "\n"}
  IN IF N = {} THEN Len(t) ELSE MinOf(N) - 1

\* name_match.group(1).strip() if name_match else docx_path.stem
community_name(t, d) ==
  LET S == {p \in 1..Len(t) : t[p] = "Community Name:" /\ NameStart(t, p) > 0}
  IN IF S = {} THEN DocxStem(d)
     ELSE strip(SubSeq(t, NameStart(t, MinOf(S)),
                       LineEnd(t, NameStart(t, MinOf(S)))))

\* re.sub(r'[\\/*?:"<>|]', "_", community_name)
safe_name(name) ==
  [k \in 1..Len(name) |->
     IF name[k] \in {"\\", "/", "*", "?", ":", Q, "<", ">", "|"} THEN "_"
     ELSE name[k]]

\* int(match.group(1)) if match else 0   for  re.search(rf"{q}:\s*(\d+)", text)
QScore(t, q) ==
  LET S == {p \in 1..Len(t) :
              /\ t[p] = q
              /\ SkipWs(t, p + 1) <= Len(t)
              /\ t[SkipWs(t, p + 1)] \in DIGITS}
  IN IF S = {} THEN 0
     ELSE NumVal(SubSeq(t, SkipWs(t, MinOf(S) + 1),
                        DigitsEnd(t, SkipWs(t, MinOf(S) + 1)) - 1))

RECURSIVE SumSeq(_)
SumSeq(q) == IF q = <<>> THEN 0 ELSE q[1] + SumSeq(Tail(q))

\* data[category] = sum(data[q] for q in q_list), for the four categories
CategoryTotals(scores) ==
  [c \in 1..4 |->
     SumSeq(PySlice(scores, CategorySlices[c][1], CategorySlices[c][2]))]

QRow(name, ts, scores) ==
  [name |-> name, ts |-> ts, scores |-> scores,
   cats |-> CategoryTotals(scores), total |-> SumSeq(scores)]

\* data: the row of one document; the time of the iteration stands for the
\* timestamp.
ScoreRow(t, d) ==
  QRow(StrV(community_name(t, d)), d,
       [k \in 1..Len(Questions) |-> QScore(t, Questions[k])])

\* The texts that pd.read_excel turns into a missing value.
NAValues ==
  {StrV(<<>>), StrV(<<"N", "/", "A">>)}
  \cup {StrV(<<w>>) : w \in {"NA", "NULL", "NaN", "None", "nan", "null",
                             "n/a", "N/A", "<NA>", "#N/A", "#NA"}}

\* pd.read_excel(output_path): numbers and other texts come back as written.
read_excel(rows) ==
  [k \in 1..Len(rows) |->
     [rows[k] EXCEPT !.name = IF @ \in NAValues THEN NoneV ELSE @]]

Exists(fs, path) == \E f \in fs : f.path = path

RowsAt(fs, path) ==
  IF Exists(fs, path) THEN (CHOOSE f \in fs : f.path = path).data ELSE <<>>

\* The scoring files a previous run may have left.
PriorFiles ==
  {{}} \cup {{FileRec(0, safe_name(n), "table", <<>>,
                      <<QRow(StrV(n), 0, [k \in 1..Len(Questions) |-> 1])>>)} : n \in QNames}

InitScore ==
  /\ script = "score_report"
  /\ folder \in [exists : {TRUE}, n : 0..NDocs]
  /\ pc = "q_glob"
  /\ i = 0
  /\ pdf_file = Unbound
  /\ remote = {}
  /\ response = NoText
  /\ df_bound = FALSE
  /\ exc = FALSE
  /\ files \in PriorFiles
  /\ all_data = <<>>
  /\ summary_data = <<>>
  /\ log = <<>>
  /\ history = <<>>
  /\ XIdle

\* analysis_files = list(...glob(...)); if not analysis_files: return
QGlob ==
  /\ pc = "q_glob"
  /\ pc' = IF folder.n = 0 THEN "q_done" ELSE "q_loop"
  /\ UNCHANGED <<script, folder, history, i, pdf_file, remote, response,
                 df_bound, exc, files, all_data, summary_data, log, xvars>>

\* for docx_path in analysis_files:
QLoopHead ==
  /\ pc = "q_loop"
  /\ IF i < folder.n
     THEN /\ i' = i + 1
          /\ pc' = "q_generate"
          /\ history' = Append(history, [completion |-> NoText, processed |-> "no"])
     ELSE /\ pc' = "q_done"
          /\ UNCHANGED <<i, history>>
  /\ UNCHANGED <<script, folder, pdf_file, remote, response, df_bound, exc,
                 files, all_data, summary_data, log, xvars>>

\* Document(docx_path) and model.generate_content(...): a completion, or an
\* exception that the handler prints.
QGenerate ==
  /\ pc = "q_generate"
  /\ \/ \E r \in QResponses :
          /\ response' = r
          /\ history' = [history EXCEPT ![i].completion = r]
          /\ pc' = "q_save"
     \/ /\ history' = [history EXCEPT ![i].processed = "raise"]
        /\ pc' = "q_loop"
        /\ UNCHANGED response
  /\ UNCHANGED <<script, folder, i, pdf_file, remote, df_bound, exc, files,
                 all_data, summary_data, log, xvars>>

\* if output_path.exists(): read and concatenate; combined_df.to_excel(...):
\* the file is replaced, or the write raises.
QWrite(path, row) ==
  \/ /\ files' = {f \in files : f.path # path}
                 \cup {FileRec(0, path, "table", <<>>,
                               Append(read_excel(RowsAt(files, path)), row))}
     /\ history' = [history EXCEPT ![i].processed = "normal"]
  \/ /\ history' = [history EXCEPT ![i].processed = "raise"]
     /\ UNCHANGED files

\* From  text = response.text  to the end of the iteration.
QSave ==
  /\ pc = "q_save"
  /\ IF response.absent
     THEN \* re.search on None: TypeError, printed by the handler
          /\ history' = [history EXCEPT ![i].processed = "raise"]
          /\ UNCHANGED files
     ELSE QWrite(safe_name(community_name(response.text, i)),
                 ScoreRow(response.text, i))
  /\ pc' = "q_loop"
  /\ UNCHANGED <<script, folder, i, pdf_file, remote, response, df_bound, exc,
                 all_data, summary_data, log, xvars>>

NextScore == QGlob \/ QLoopHead \/ QGenerate \/ QSave

SpecScore == InitScore /\ [][NextScore]_vars

\* ------------------------------------------------------------------------
\* classify_actions_with_gemini (the category and the stakeholder script):
\* one label and one justification per row of the input sheet
\* ------------------------------------------------------------------------

Classifiers == {"classify_category", "classify_stakeholder"}

\* The completions a row is classified with.
CResponses ==
  {NoText, Resp(<<>>), Resp(<<"I.1">>),
   Resp(<<" ", "I.1", "\n", " ", "w", "\n", "v">>)}

RECURSIVE JoinStripped(_, _)
\* " ".join([line.strip() for line in lines[k:]])
JoinStripped(lines, k) ==
  IF k > Len(lines) THEN <<>>
  ELSE strip(lines[k])
       \o (IF k < Len(lines) THEN <<" ">> ELSE <<>>)
       \o JoinStripped(lines, k + 1)

\* The label and the justification parsed from the lines of a completion.
Classified(s, lines) ==
  [label |-> strip(lines[1]),
   why |-> IF Len(lines) <= 1 THEN <<"No justification provided.">>
           ELSE IF s = "classify_category" THEN strip(JoinStripped(lines, 2))
           ELSE strip(lines[2])]

\* The entries of the handler and of a row without an action.
ErrorLabel(s) == IF s = "classify_category" THEN <<"Other">> ELSE <<"Error">>

\* category_list.append(a); justification_list.append(b)
AppendBoth(a, b) ==
  /\ all_data' = Append(all_data, a)
  /\ summary_data' = Append(summary_data, b)

InitClassify ==
  /\ script \in Classifiers
  /\ folder \in [exists : {TRUE}, n : 0..NDocs]
  /\ pc = "c_loop"
  /\ i = 0
  /\ pdf_file = Unbound
  /\ remote = {}
  /\ response = NoText
  /\ df_bound = FALSE
  /\ exc = FALSE
  /\ files = {}
  /\ all_data = <<>>
  /\ summary_data = <<>>
  /\ log = <<>>
  /\ history = <<>>
  /\ XIdle

\* for idx, action in enumerate(df['Action']): the row has no action, or the
\* prompt is built (the stakeholder script prints the list first, outside
\* the try).
CRow ==
  /\ pc = "c_loop" /\ i < folder.n
  /\ i' = i + 1
  /\ \/ /\ AppendBoth(<<"Other">>, <<"No action provided.">>)
        /\ pc' = "c_loop"
     \/ /\ pc' = "c_generate"
        /\ UNCHANGED <<all_data, summary_data>>
     \/ /\ script = "classify_stakeholder"
        /\ pc' = "crashed"
        /\ UNCHANGED <<all_data, summary_data>>
  /\ UNCHANGED <<script, folder, history, pdf_file, remote, response, df_bound,
                 exc, files, log, xvars>>

\* response = model.generate_content(prompt)
CGenerate ==
  /\ pc = "c_generate"
  /\ \/ \E r \in CResponses : response' = r /\ pc' = "c_parse"
     \/ pc' = "c_except" /\ UNCHANGED response
  /\ UNCHANGED <<script, folder, history, i, pdf_file, remote, df_bound, exc,
                 files, all_data, summary_data, log, xvars>>

\* From response.text.strip() to the two appends.
CParse ==
  /\ pc = "c_parse"
  /\ IF response.absent
     THEN pc' = "c_except" /\ UNCHANGED <<all_data, summary_data>>
     ELSE /\ AppendBoth(Classified(script, split(strip(response.text), "\n")).label,
                        Classified(script, split(strip(response.text), "\n")).why)
          /\ pc' = "c_report"
  /\ UNCHANGED <<script, folder, history, i, pdf_file, remote, response,
                 df_bound, exc, files, log, xvars>>

\* print(f"Row {idx+1}: ..."); time.sleep(1): both inside the try.
CReport ==
  /\ pc = "c_report"
  /\ pc' \in {"c_loop", "c_except"}
  /\ UNCHANGED <<script, folder, history, i, pdf_file, remote, response,
                 df_bound, exc, files, all_data, summary_data, log, xvars>>

\* except Exception as e: print; append the error entries.
CExcept ==
  /\ pc = "c_except"
  /\ AppendBoth(ErrorLabel(script), <<"Error in classification.">>)
  /\ pc' = "c_loop"
  /\ UNCHANGED <<script, folder, history, i, pdf_file, remote, response,
                 df_bound, exc, files, log, xvars>>

\* df[...] = category_list (ValueError unless the list has one entry per
\* row); df[...] = justification_list; df.to_excel(output_excel)
CSave ==
  /\ pc = "c_loop" /\ i = folder.n
  /\ IF Len(all_data) # folder.n \/ Len(summary_data) # folder.n
     THEN pc' = "crashed" /\ UNCHANGED files
     ELSE \/ /\ files' = {[doc |-> 0, path |-> "classified.xlsx",
                           labels |-> all_data, whys |-> summary_data]}
             /\ pc' = "done"
          \/ pc' = "crashed" /\ UNCHANGED files
  /\ UNCHANGED <<script, folder, history, i, pdf_file, remote, response,
                 df_bound, exc, all_data, summary_data, log, xvars>>

NextClassify == CRow \/ CGenerate \/ CParse \/ CReport \/ CExcept \/ CSave

SpecClassify == InitClassify /\ [][NextClassify]_vars

\* ------------------------------------------------------------------------
\* GeminiAPIPromptValidation.save_text_as_excel: the two tables of a
\* completion, each on its sheet
\* ------------------------------------------------------------------------

\* Most lines of a text given to save_text_as_excel.
MaxLines == 3

\* str.strip() of a line or a cell that may hold tabs.
PyStrip(t) ==
  LET K == {k \in 1..Len(t) : t[k] \notin WS \cup {"\t"}}
  IN IF K = {} THEN <<>> ELSE SubSeq(t, MinOf(K), MaxOf(K))

\* text.splitlines(): the pieces between newlines, without an empty last one.
splitlines(t) ==
  LET ps == split(t, "\n")
  IN IF ps[Len(ps)] = <<>> THEN SubSeq(ps, 1, Len(ps) - 1) ELSE ps

\* "Output Format 1:" in line or "C40 Key Parameter Coverage Matrix" in line
CoverageMarker(line) ==
  \E k \in 1..Len(line) :
    line[k] \in {"Output Format 1:", "C40 Key Parameter Coverage Matrix"}

\* "Output Format 2:" in line or "Enhanced Validation Table" in line
ValidationMarker(line) ==
  \E k \in 1..Len(line) :
    line[k] \in {"Output Format 2:", "Enhanced Validation Table"}

\* "\t" in line or "|" in line
Separated(line) == \E k \in 1..Len(line) : line[k] \in {"\t", "|"}

\* row = line.replace("|", "\t").split("\t");
\* row = [cell.strip() for cell in row if cell.strip()]
Cells(line) ==
  LET tabbed == [k \in 1..Len(line) |-> IF line[k] = "|" THEN "\t" ELSE line[k]]
      parts == split(tabbed, "\t")
      kept == SelectSeq(parts, LAMBDA c : PyStrip(c) # <<>>)
  IN [k \in 1..Len(kept) |-> PyStrip(kept[k])]

CoverageHeader ==
  << <<"Key Parameter">>, <<"Covered by Question(s)?">>, <<"Question ID(s)">>,
     <<"Gap?">>, <<"Comments">> >>

CoverageDefault ==
  << <<"No data available">>, <<"N/A">>, <<"N/A">>, <<"N/A">>,
     <<"No data parsed from analysis">> >>

ValidationHeader ==
  << <<"Question ID">>, <<"Aligned with C40?">>, <<"Key Parameters Missing">>,
     <<"Comments">> >>

ValidationDefault ==
  << <<"No data available">>, <<"N/A">>, <<"N/A">>,
     <<"No data parsed from analysis">> >>

\* if not table: table = [header, default]; if len(table) == 1:
\* table.append(default)
WithDefaults(table, header, default) ==
  IF table = <<>> THEN <<header, default>>
  ELSE IF Len(table) = 1 THEN Append(table, default)
  ELSE table

\* pd.DataFrame(table[1:], columns=table[0]) raises ValueError unless the
\* widest data row has as many cells as the header.
FrameRaises(table) ==
  MaxOf({Len(table[k]) : k \in 2..Len(table)}) # Len(table[1])

Sheet(name, table) == FileRec(0, name, "sheet", <<>>, table)

\* The lines the texts are made of: blank, the two markers, rows of two and
\* of five cells, prose, and separators without a cell.
LineKinds ==
  {<<" ">>, <<"Output Format 1:">>, <<"w", " ", "Enhanced Validation Table">>,
   <<"|", " ", "w", " ", "|", " ", "v", " ", "|">>,
   <<"w", "\t", "v", "\t", "u", "\t", "w", "\t", "v">>,
   <<"w", " ", "v">>, <<"|", " ", "|">>}

RECURSIVE JoinLines(_)
\* "\n".join(ls)
JoinLines(ls) ==
  IF ls = <<>> THEN <<>>
  ELSE IF Len(ls) = 1 THEN ls[1]
  ELSE ls[1] \o <<"\n">> \o JoinLines(Tail(ls))

ExcelTexts ==
  {JoinLines(ls) : ls \in UNION {[1..n -> LineKinds] : n \in 0..MaxLines}}

\* The variables the function does not use.
ExcelIdle ==
  <<script, folder, pdf_file, remote, response, df_bound, history, artifact>>

InitExcel ==
  /\ script = "save_text_as_excel"
  /\ folder = [exists |-> TRUE, n |-> 0]
  /\ pc = "x_split"
  /\ i = 0
  /\ pdf_file = Unbound
  /\ remote = {}
  /\ response = NoText
  /\ df_bound = FALSE
  /\ exc = FALSE
  /\ files = {}
  /\ all_data = <<>>
  /\ summary_data = <<>>
  /\ log = <<>>
  /\ history = <<>>
  /\ text \in ExcelTexts
  /\ result = <<>>
  /\ artifact = NoArtifact
  /\ phase = "none"

\* coverage_matrix = []; validation_table = []; current_table = None;
\* lines = text.splitlines()
XSplit ==
  /\ pc = "x_split"
  /\ result' = splitlines(text)
  /\ pc' = "x_line"
  /\ UNCHANGED <<i, exc, files, all_data, summary_data, log, text, phase>>
  /\ UNCHANGED ExcelIdle

\* The body of  for line in lines  for the stripped line.
XRoute(line) ==
  IF line = <<>> THEN UNCHANGED <<phase, all_data, summary_data>>
  ELSE IF CoverageMarker(line)
  THEN phase' = "coverage" /\ UNCHANGED <<all_data, summary_data>>
  ELSE IF ValidationMarker(line)
  THEN phase' = "validation" /\ UNCHANGED <<all_data, summary_data>>
  ELSE IF phase = "coverage" /\ Separated(line)
  THEN /\ all_data' = IF Cells(line) # <<>> THEN Append(all_data, Cells(line))
                      ELSE all_data
       /\ UNCHANGED <<phase, summary_data>>
  ELSE IF phase = "validation" /\ Separated(line)
  THEN /\ summary_data' = IF Cells(line) # <<>>
                          THEN Append(summary_data, Cells(line))
                          ELSE summary_data
       /\ UNCHANGED <<phase, all_data>>
  ELSE UNCHANGED <<phase, all_data, summary_data>>

XLine ==
  /\ pc = "x_line" /\ i < Len(result)
  /\ i' = i + 1
  /\ XRoute(PyStrip(result[i + 1]))
  /\ UNCHANGED <<pc, exc, files, log, text, result>>
  /\ UNCHANGED ExcelIdle

\* The defaults for a table without rows or with one row.
XDefaults ==
  /\ pc = "x_line" /\ i = Len(result)
  /\ all_data' = WithDefaults(all_data, CoverageHeader, CoverageDefault)
  /\ summary_data' = WithDefaults(summary_data, ValidationHeader,
                                  ValidationDefault)
  /\ pc' = "x_write"
  /\ UNCHANGED <<i, exc, files, log, text, result, phase>>
  /\ UNCHANGED ExcelIdle

\* with pd.ExcelWriter(output_path) as writer: the two frames, each written
\* to its sheet; the writer saves what was written when the block is left.
XWrite ==
  /\ pc = "x_write"
  /\ \/ /\ log' = Append(log, Call("ExcelWriter", 0, "raise"))
        /\ exc' = TRUE /\ pc' = "crashed"
        /\ UNCHANGED files
     \/ /\ IF FrameRaises(all_data)
           THEN exc' = TRUE /\ pc' = "crashed" /\ UNCHANGED files
           ELSE IF FrameRaises(summary_data)
           THEN /\ exc' = TRUE /\ pc' = "crashed"
                /\ files' = {Sheet("Coverage Matrix", all_data)}
           ELSE /\ files' = {Sheet("Coverage Matrix", all_data),
                             Sheet("Validation Table", summary_data)}
                /\ pc' = "done"
                /\ UNCHANGED exc
        /\ UNCHANGED log
  /\ UNCHANGED <<i, all_data, summary_data, text, result, phase>>
  /\ UNCHANGED ExcelIdle

NextExcel == XSplit \/ XLine \/ XDefaults \/ XWrite

SpecExcel == InitExcel /\ [][NextExcel]_vars

\* ------------------------------------------------------------------------
\* Properties of one loop iteration, read off the calls it made
\* ------------------------------------------------------------------------

\* The iteration of document i has ended (the next document, the code after
\* the loop, or the caller comes next).
IterationOver == i > 0 /\ pc \in {"iter_done", "crashed"}

\* upload_file returned a handle in this iteration.
UploadReturned ==
  \E k \in 1..Len(log) : log[k].op = "upload_file" /\ log[k].r # "raise"

\* The delete_file calls made for handle h in this iteration.
DeleteCalls(h) == {k \in 1..Len(log) : log[k].op = "delete_file" /\ log[k].h = h}

GenerateCalls == {k \in 1..Len(log) : log[k].op = "generate_content"}

\* The states reported by upload_file and get_file, in order.
Observed == SelectSeq(log, LAMBDA c : c.op \in {"upload_file", "get_file"}
                                      /\ c.r # "raise")

\* C1: in the try/finally pipelines Report, Scope123 and PromptValidation,
\* when the iteration of a document whose upload returned a handle is over,
\* delete_file has been invoked exactly once for that handle.
C1_DeleteExactlyOnce ==
  (script \in {"Report", "Scope123", "PromptValidation"}
   /\ IterationOver /\ UploadReturned)
  => Cardinality(DeleteCalls(i)) = 1

\* The last state reported for the document is neither PROCESSING nor ACTIVE.
EndedNotActive ==
  Observed # <<>> /\ Observed[Len(Observed)].r \notin {"PROCESSING", "ACTIVE"}

EndedActive == Observed # <<>> /\ Observed[Len(Observed)].r = "ACTIVE"

\* C2: in Report and Analysis, when the iteration of a document that ended
\* in a state other than ACTIVE is over, generate_content was never called
\* for it and delete_file was attempted exactly once for its handle.
C2_FailedDocumentCleanedOnce ==
  (script \in {"Report", "Analysis"} /\ IterationOver /\ EndedNotActive)
  => GenerateCalls = {} /\ Cardinality(DeleteCalls(i)) = 1

\* C3: in Prioritized, GHG and Clustering, when the iteration of a document
\* whose upload returned a handle is over, delete_file has been invoked for
\* that handle, whichever way the iteration ended.
C3_DeleteOnEveryExit ==
  (script \in {"Prioritized", "GHG", "Clustering"}
   /\ IterationOver /\ UploadReturned)
  => DeleteCalls(i) # {}

\* Positions of the log where a state other than PROCESSING was reported.
Settled ==
  {k \in 1..Len(log) : /\ log[k].op \in {"upload_file", "get_file"}
                       /\ log[k].r \notin {"PROCESSING", "raise"}}

\* ACTIVE was reported before position k of the log.
ActiveBefore(k) ==
  \E j \in 1..(k - 1) : /\ log[j].op \in {"upload_file", "get_file"}
                        /\ log[j].r = "ACTIVE"

\* C4: in every pipeline, no get_file follows the first report of a state
\* other than PROCESSING; generate_content is called only after ACTIVE was
\* reported and at most once per document; and once the polling of a
\* document has ended in ACTIVE it has been called exactly once.
C4_PollThenGenerateOnce ==
  /\ \A k \in Settled : \A l \in (k + 1)..Len(log) : log[l].op # "get_file"
  /\ \A g \in GenerateCalls : ActiveBefore(g)
  /\ Cardinality(GenerateCalls) <= 1
  /\ (i > 0 /\ pc \notin {"upload", "poll", "generate"} /\ EndedActive)
     => Cardinality(GenerateCalls) = 1

\* A document that was reported PROCESSING by the upload and by a poll, then
\* ACTIVE, has finished its iteration with one completion call.
C4_Witness ==
  /\ pc = "iter_done"
  /\ Len(Observed) >= 3
  /\ Observed[1].r = "PROCESSING" /\ Observed[2].r = "PROCESSING"
  /\ EndedActive
  /\ Cardinality(GenerateCalls) = 1

\* C5: in Scope123 and ExtractActions no exception leaves getScores.
C5_NothingPropagates ==
  script \in {"Scope123", "ExtractActions"} => pc # "crashed"

\* delete_file raised in this iteration.
DeleteFailed ==
  \E k \in 1..Len(log) : log[k].op = "delete_file" /\ log[k].r = "raise"

\* C6: in Report, Categorize and Prioritized, once a delete_file of the
\* iteration has raised, the rest of the iteration makes no further
\* delete_file call for the document, leaves the recorded data as it is, and
\* lets no exception out.
C6_DeleteFailureOnlyLogged ==
  [][(script \in {"Report", "Categorize", "Prioritized"}
      /\ pc \in {"except", "finally"} /\ DeleteFailed)
     => /\ DeleteCalls(i)' = DeleteCalls(i)
        /\ files' = files /\ all_data' = all_data
        /\ summary_data' = summary_data
        /\ pc' # "crashed"]_vars

\* text is p, then a block, then q.
Framed(t, p, q) ==
  Len(t) >= Len(p) + Len(q) /\ startswith(t, p) /\ endswith(t, q)

Middle(t, p, q) == SubSeq(t, Len(p) + 1, Len(t) - Len(q))

\* A parse result that is a non-empty JSON array of objects.
IsArrayOfObjects(j) ==
  j.ok /\ j.v.t = "arr" /\ Len(j.v.items) >= 1 /\ AllObjects(j.v)

\* C7: when the text is bracket-free prose, then one well-formed JSON array
\* of objects, then bracket-free prose, extract_json_from_response returns
\* the parsed array.
C7_FramedArrayReturned ==
  phase = "extracted" =>
    \A p \in ProseBefore, q \in ProseAfter :
      (Framed(text, p, q) /\ IsArrayOfObjects(json_loads(Middle(text, p, q))))
      => result = json_loads(Middle(text, p, q)).v

\* The text holds no square bracket at all.
NoBrackets(t) == \A k \in 1..Len(t) : t[k] \notin {"[", "]"}

TextArtifact(t) == [written |-> TRUE, form |-> "text", content |-> t]

NoLiteral(t) ==
  /\ ~json_loads(strip_fences(strip(t))).ok
  /\ ~literal_eval(strip_fences(strip(t))).ok

Completion(d) == history[d].completion

RawText(d) == strip(Completion(d).text)

\* No structured data: the pattern is not found or its block does not parse.
NoStructuredData(t) == ~ParseBlock(t, re_search_array(t)).ok

\* A per-document text file holding t exists for document d.
FallbackFile(d, t) == \E f \in files : f.doc = d /\ f.form = "text" /\ f.text = t

\* C9: in Scope123, Categorize and Prioritized, when the iteration of a
\* document whose completion text yields no structured data has ended
\* without an exception, a per-document fallback file holds the raw text.
C9_RawTextKept ==
  (script \in {"Scope123", "Categorize", "Prioritized"}
   /\ pc = "iter_done"
   /\ history[i].processed = "normal"
   /\ NoStructuredData(RawText(i)))
  => FallbackFile(i, RawText(i))

\* The valid 3-record array of each batch script and the field by which its
\* output attributes a record to a document.
ThreeRecords(s) == IF s = "Categorize" THEN ThreeActions ELSE ThreeSectors

SourceField(s) == IF s = "Categorize" THEN "Source PDF" ELSE "Document Name"

\* The batch output holds exactly 3 records, each attributed to document a.
BatchOfThreeFrom(a) ==
  \E f \in files :
    /\ f.path = "batch.xlsx"
    /\ Len(f.data.items) = 3
    /\ \A k \in 1..3 :
         DictGet(f.data.items[k], SourceField(script), NoneV) = StrV(PdfName(a))

\* C10: in Categorize and Prioritized, after a batch of two documents, one
\* (a) answered with a valid 3-record array and the other (b) with prose,
\* both processed without an exception, the batch output holds exactly 3
\* records attributed to a, and a raw-text file exists for b and none for a.
C10_ThreeRecordsAndOneFallback ==
  \A a, b \in 1..2 :
    (script \in {"Categorize", "Prioritized"}
     /\ pc = "done" /\ folder.n = 2 /\ a # b
     /\ history[a] = [completion |-> Resp(ThreeRecords(script)),
                      processed |-> "normal"]
     /\ history[b] = [completion |-> Resp(Prose), processed |-> "normal"])
    => /\ BatchOfThreeFrom(a)
       /\ FallbackFile(b, RawText(b))
       /\ ~\E f \in files : f.doc = a /\ f.form = "text"

\* The script waits for the file of the current document to leave PROCESSING.
Waiting == pc \in {"poll", "sleep"} /\ pdf_file.state = "PROCESSING"

\* C11: in Categorize and PromptValidation, if no file stays PROCESSING for
\* ever, every run that enters the loop reaches the code after the loop with
\* every PDF of the folder taken; and while the file of a document is still
\* reported PROCESSING the script stays in the readiness loop of that
\* document: no later document is started, the handle stays undeleted and no
\* batch output is written.
C11_OnlyTheStateEndsPolling ==
  /\ ([]<>~Waiting) => ((pc = "loop") ~> (pc = "after_loop" /\ i = folder.n))
  /\ [][(Waiting /\ pdf_file'.state = "PROCESSING" /\ pc' # "except")
        => /\ pc' \in {"poll", "sleep"}
           /\ i' = i /\ remote' = remote /\ i \in remote
           /\ files' = files /\ pc' # "after_loop"]_vars

\* A first document of two is polled beyond the recorded polls: its handle
\* is undeleted, the second document is not started, nothing is written.
C11_Witness ==
  /\ pc = "sleep" /\ i = 1 /\ folder.n = 2
  /\ NPolls >= MaxPolls - 1
  /\ 1 \in remote /\ files = {}

\* The three attempts of extract_json_from_response on a text.
StageOne(t) == ParseBlock(strip(t), re_search_array(strip(t)))

StageTwo(t) == json_loads(strip_fences(strip(t)))

StageThree(t) == literal_eval(strip_fences(strip(t)))

\* r is the value of the first attempt that succeeded, None when none did.
FirstSuccess(a, b, c, r) ==
  r = IF a.ok THEN a.v ELSE IF b.ok THEN b.v ELSE IF c.ok THEN c.v ELSE NoneV

AllFail(a, b, c) == ~a.ok /\ ~b.ok /\ ~c.ok

StagesAsStated(a, b, c, r) ==
  FirstSuccess(a, b, c, r) /\ (r = NoneV <=> AllFail(a, b, c))

\* A None that is not a failure is the value of stage 2 or of stage 3.
StagesWithNull(a, b, c, r) ==
  /\ FirstSuccess(a, b, c, r)
  /\ AllFail(a, b, c) => r = NoneV
  /\ (r = NoneV /\ ~AllFail(a, b, c))
       => ~a.ok /\ (IF b.ok THEN b.v = NoneV ELSE c.v = NoneV)

Groups(t) == {p \in 1..Len(t) : t[p] = "[" /\ MatchEnd(t, p) > 0}

BlockAt(t, p) == SubSeq(t, p, MatchEnd(t, p))

SeveralGroups(t) == Cardinality(Groups(t)) >= 2

\* j is the parse of the leftmost block, b and c the whole-text fallbacks.
LeftmostDecides(j, b, c, r) ==
  r = IF j.ok THEN j.v ELSE IF b.ok THEN b.v ELSE IF c.ok THEN c.v ELSE NoneV

LeftmostBlock(t) == json_loads(BlockAt(t, MinOf(Groups(t))))

\* The per-document files of ExtractScope123Emissions for a leftmost block
\* whose parse is j: the data file, or else the raw text.
LeftmostSaved(j, t, fs) ==
  IF j.ok THEN \E f \in fs : f.form = "json" /\ f.data = j.v
  ELSE fs = {FileRec(1, "RAW.txt", "text", t, NoneV)}

WentThrough(d) == d \in 1..Len(history) /\ history[d].processed # "no"

\* An exception in the step of document d, if there was one, is not the
\* failure of a write: the step raises with every write succeeding too.
NoWriteFailed(d) ==
  history[d].processed = "raise"
  => ProcessDoc(script, Completion(d), d, {}, FALSE).out = "raise"

\* Document d left no record and no summary row.
NoRecords(d) ==
  /\ \A k \in 1..Len(all_data) : all_data[k].src # d
  /\ \A k \in 1..Len(summary_data) : summary_data[k].City # d

\* C14: in GeminiAPIReport and ExtractScope123Emissions the step of a
\* document whose completion text is empty or absent raises no exception
\* (no handler path is taken) and the document contributes no records and
\* no summary row.
C14_EmptyTextIsNoContent ==
  \A d \in 1..NDocs :
    (script \in {"Report", "Scope123"}
     /\ WentThrough(d) /\ ~HasText(Completion(d)) /\ NoWriteFailed(d))
    => history[d].processed = "normal" /\ NoRecords(d)

\* upload_file raised in this iteration.
UploadRaised ==
  \E k \in 1..Len(log) : log[k].op = "upload_file" /\ log[k].r = "raise"

\* C15: in report_check and GeminiAPIReport, when upload_file raised for a
\* document, the iteration makes no get_file, generate_content or delete_file
\* call, writes no artifact for the document and lets no exception leave the
\* loop; and a
\* delete_file call is only ever made with the handle that the upload of the
\* same iteration returned.
C15_FailedUploadTouchesNothing ==
  script \in {"report_check", "Report"}
  => /\ UploadRaised
          => /\ \A k \in 1..Len(log) :
                  log[k].op \notin {"get_file", "generate_content", "delete_file"}
             /\ \A f \in files : f.doc # i
             /\ ~(pc = "crashed" /\ exc)
     /\ \A k \in 1..Len(log) :
          log[k].op = "delete_file" => (UploadReturned /\ log[k].h = i)

\* No delete_file call of the current iteration raised.
NoDeleteRaised ==
  \A k \in 1..Len(log) : ~(log[k].op = "delete_file" /\ log[k].r = "raise")

\* At most one uploaded file is not yet deleted, and none when the next
\* upload_file is about to be called.
OneRemoteFile == Cardinality(remote) <= 1 /\ (pc = "upload" => remote = {})

\* C16: in the scripts whose per-document try has a finally clause, as long
\* as no delete_file call raises, at most one uploaded remote file is not
\* yet deleted at any time and upload_file for the next document is never
\* called before the previous document's file is deleted.
C16_OneRemoteFileAtATime ==
  ([]NoDeleteRaised) => [](script \in HasFinally => OneRemoteFile)

\* The second document is uploaded, the first already deleted.
C16_Witness ==
  /\ script \in {"Scope123", "Prompt_validation"}
  /\ i = 2 /\ pc = "poll" /\ remote = {2}
  /\ \E f \in files : f.doc = 1

\* The batch outputs written so far.
BatchFiles == {f \in files : f.doc = 0}

IsPrefix(a, b) == Len(a) <= Len(b) /\ SubSeq(b, 1, Len(a)) = a

\* The batch output holds one row for every accumulated record, in the
\* order of accumulation.
RowsInOrder ==
  \A f \in BatchFiles :
    /\ Len(f.data.items) = Len(all_data)
    /\ \A k \in 1..Len(all_data) :
         f.data.items[k] = BatchRow(script, all_data[k].rec)

\* The end of a run of a script of S: the batch output exists exactly when
\* records were accumulated, unless writing it failed.
BatchAtEnd(S) ==
  script \in S
  => /\ pc = "done" => ((BatchFiles # {} <=> all_data # <<>>) /\ RowsInOrder)
     /\ (pc = "crashed" /\ all_data # <<>>) => ~BatchRaises

\* A step of a script of S: the list only grows, and the batch output is
\* written once, after the last iteration, with records accumulated.
BatchStep(S) ==
  script \in S
  => /\ IsPrefix(all_data, all_data')
     /\ (BatchFiles' # BatchFiles)
          => (/\ pc = "after_loop" /\ i = folder.n
              /\ BatchFiles = {} /\ all_data # <<>>
              /\ Cardinality(BatchFiles') = 1)

\* C17: in extract_prioritized_actions and extract_actions_and_categorize
\* the batch output is written at most once, only after the iteration of the
\* last PDF and only with records accumulated; a run that accumulated
\* records ends with the batch output written, one row per record in
\* processing order, unless the write itself fails; and the accumulated list
\* only grows.
C17_BatchWrittenOnceAtTheEnd ==
  /\ []BatchAtEnd({"Prioritized", "Categorize"})
  /\ [][BatchStep({"Prioritized", "Categorize"})]_vars

\* The scoring file of the document in hand.
OutputPath == safe_name(community_name(response.text, i))

\* The step that saved the row of the document in hand.
SavedStep == pc = "q_save" /\ history'[i].processed = "normal"

RowsKept(old, new) ==
  Len(new) = Len(old) + 1 /\ SubSeq(new, 1, Len(old)) = old

\* C18: when analyze_questionnaire_reports saves the row of a document, the
\* rows that the community's file held before are unchanged and in order and
\* exactly one row follows them (one row in all when there was no file), and
\* every other file is left alone.
C18_ExistingRowsKept ==
  [][SavedStep
     => /\ RowsKept(RowsAt(files, OutputPath), RowsAt(files', OutputPath))
        /\ \A f \in files : f.path # OutputPath => f \in files']_vars

\* C19: in GeminiAPIReport and extract_prioritized_actions, when the input
\* folder is missing or holds no PDF, the run makes no upload_file,
\* generate_content or delete_file call, writes no artifact and lets no
\* exception propagate.
C19_NoInputEndsQuietly ==
  (script \in {"Report", "Prioritized"} /\ (~folder.exists \/ folder.n = 0))
  => /\ pc \in {"start", "loop", "after_loop", "done"}
     /\ i = 0 /\ log = <<>> /\ remote = {} /\ files = {}

\* The completion of document d holds a block that the array pattern matches
\* and that parses as JSON.
BlockParses(d) ==
  ~Completion(d).absent /\ ParseBlock(RawText(d), re_search_array(RawText(d))).ok

HasFile(d, form) == \E f \in files : f.doc = d /\ f.form = form

\* The step of document i in ExtractScope123Emissions has just ended, for a
\* completion with a matching block that parses.
ParsedStepOver ==
  /\ script = "Scope123" /\ pc \in {"except", "finally"}
  /\ WentThrough(i) /\ BlockParses(i)

C21_OneEntryPerRow ==
  (script \in Classifiers /\ pc = "c_loop")
  => Len(all_data) = i /\ Len(summary_data) = i

\* The iteration of the current document went through the outer handler.
HandlerTaken == \E k \in 1..Len(log) : log[k].r = "raise"

\* The records of document d in all_data, in order.
RecordsOf(d) == SelectSeq(all_data, LAMBDA e : e.src = d)

\* The elements of the parsed array of document d that are objects with a
\* 'Sector' key, as records.
SectorRecords(d) ==
  LET j == ParseBlock(RawText(d), re_search_array(RawText(d)))
      carry == IF j.ok /\ j.v.t = "arr"
               THEN SelectSeq(j.v.items,
                              LAMBDA it : it.t = "obj" /\ HasKey(it, "Sector"))
               ELSE <<>>
  IN [k \in 1..Len(carry) |-> Entry(d, WithDocumentName(carry[k], d))]

\* C22: in extract_prioritized_actions and extract_ghg_percentages a
\* document contributes its records atomically: after an iteration that
\* ended in the exception handler none of its records are in all_data, and
\* after any other iteration that read a completion all the records of its
\* parsed array that carry a 'Sector' key are.
C22_RecordsAllOrNothing ==
  (script \in {"Prioritized", "GHG"} /\ pc = "iter_done")
  => IF HandlerTaken THEN RecordsOf(i) = <<>>
     ELSE WentThrough(i) => RecordsOf(i) = SectorRecords(i)

\* C23: in ExtractScope123Emissions and GeminiAPIExtractActions a document
\* has at most one kind of result on disk: structured artifacts (JSON,
\* Excel) or the raw-text fallback, never both.
C23_OneKindOfResult ==
  script \in {"Scope123", "ExtractActions"}
  => \A d \in 1..NDocs :
       ~((HasFile(d, "json") \/ HasFile(d, "table")) /\ HasFile(d, "text"))

\* The value extract_json_from_response returned for document d.
AnalysisData(d) == extract_json_from_response(ReportRawText(Completion(d)))

RECURSIVE PrefixedScores(_, _)
\* The sum of the 'score' fields of the items from k on whose question_id
\* starts with "1.", "2.", "3." or "4.".
PrefixedScores(items, k) ==
  IF k > Len(items) THEN 0
  ELSE (IF QidCategory(DictGet(items[k], "question_id", StrV(<<"N/A">>)).s) # 0
        THEN NumVal(DictGet(items[k], "score", NumV(<<"0">>)).s)
        ELSE 0)
       + PrefixedScores(items, k + 1)

\* Row r of summary_data belongs to a document whose extraction result is a
\* list and whose Word report was saved, and adds up.
RowSound(r) ==
  /\ WentThrough(r.City)
  /\ history[r.City].processed = "normal"
  /\ AnalysisData(r.City).t = "arr"
  /\ HasFile(r.City, "json") /\ HasFile(r.City, "docx")
  /\ r.Total = r.scores[1] + r.scores[2] + r.scores[3] + r.scores[4]
  /\ r.Total = PrefixedScores(AnalysisData(r.City).items, 1)

\* The step of document i in GeminiAPIReport has just ended.
ReportStepOver ==
  script = "Report" /\ pc \in {"except", "finally"} /\ WentThrough(i)

\* C24: in GeminiAPIReport.getScores summary_data holds at most one row per
\* document, only for a document whose extraction result is a list and whose
\* Word report was saved; the Total Score of a row is the sum of its four
\* category scores, which is the sum of the 'score' fields of exactly the
\* items whose question_id starts with "1.", "2.", "3." or "4."; a document
\* whose step raised has no row.  (Rows are only ever appended, so each row
\* is examined when the step of its document ends.)
C24_SummaryRowsSound ==
  script = "Report"
  => /\ \A k, l \in 1..Len(summary_data) :
          /\ summary_data[k].City <= i
          /\ summary_data[k].City = summary_data[l].City => k = l
     /\ ReportStepOver
        => /\ \A k \in 1..Len(summary_data) :
                summary_data[k].City = i => RowSound(summary_data[k])
           /\ history[i].processed = "raise" => NoRecords(i)

\* Document 1 got its row, with the item outside the four categories left
\* out of the total; document 2 failed after its JSON artifact was written
\* and has the artifact but no row.
C24_Witness ==
  /\ script = "Report" /\ Len(history) = 2
  /\ Completion(1) = Resp(ThreeScores) /\ Completion(2) = Resp(ThreeScores)
  /\ summary_data = <<SummaryRow(1, <<1, 0, 0, 2>>)>>
  /\ HasFile(1, "docx")
  /\ history[2].processed = "raise"
  /\ HasFile(2, "json") /\ ~HasFile(2, "docx")

\* The data the inline extraction of ExtractScope123Emissions saved for the
\* text: the content of the JSON artifact.
InlineData == (CHOOSE f \in files : f.form = "json").data

\* The inline extraction yielded data: the JSON artifact was written.
InlineYields == \E f \in files : f.form = "json"

\* C25: the inline extraction (the array pattern, then json.loads of the
\* match) refines extract_json_from_response: whenever the inline form
\* yields data, extract_json_from_response returns the same data on the same
\* text; the inline form yields no data, and keeps the raw text, whenever
\* the pattern is not found or the match does not parse, whatever
\* extract_json_from_response returns through its later stages.
C25_InlineRefinesExtract ==
  phase = "scoped"
  => /\ InlineYields => InlineData = extract_json_from_response(text)
     /\ ~StageOne(text).ok
          => ~InlineYields /\ FallbackFile(1, strip(text))

\* The inline extraction found an array inside prose, which the later
\* stages of extract_json_from_response cannot parse.
C25_Witness ==
  /\ phase = "scoped" /\ InlineYields
  /\ text \in FramedArrays
  /\ ~StageTwo(text).ok /\ ~StageThree(text).ok
  /\ InlineData = extract_json_from_response(text)

\* The iteration of document i in analyze_questionnaire_reports has just
\* saved its row.
RowSaved ==
  /\ script = "score_report" /\ pc = "q_loop" /\ i >= 1
  /\ history[i].processed = "normal"

\* The row the iteration of document i appended to its scoring file.
LastRow ==
  LET rows == RowsAt(files, safe_name(community_name(response.text, i)))
  IN rows[Len(rows)]

\* The label has a score column.
HasColumn(q) == \E k \in 1..Len(Questions) : Questions[k] = q

ColumnOf(row, q) == row.scores[CHOOSE k \in 1..Len(Questions) : Questions[k] = q]

\* The categories whose total counts the label.
CategoriesOf(q) ==
  {c \in 1..4 :
     \E k \in (CategorySlices[c][1] + 1)..CategorySlices[c][2] :
       k <= Len(Questions) /\ Questions[k] = q}

\* The row holds the score of label q, counted in exactly one category.
LabelScored(row, q) ==
  /\ HasColumn(q)
  /\ ColumnOf(row, q) = QScore(response.text, q)
  /\ Cardinality(CategoriesOf(q)) = 1

TotalsAddUp(row) ==
  /\ row.total = row.cats[1] + row.cats[2] + row.cats[3] + row.cats[4]
  /\ row.total = SumSeq(row.scores)

\* C26: in analyze_questionnaire_reports every sub-question label the prompt
\* requests (1.1-1.7, 2.1-2.7, 3.1-3.6, 4.1-4.5) gets a score column in the
\* saved row, a missing label counting 0, each label is counted in exactly
\* one category total, and Total Score is the sum of the four category
\* totals.
C26_EveryRequestedLabelScored ==
  RowSaved
  => /\ \A q \in PromptLabels : LabelScored(LastRow, q)
     /\ TotalsAddUp(LastRow)

\* The accumulated row is the header of the table.
HeaderRow(row) == row.items[1] = StrV(<<"Category">>)

\* The accumulated row is the markdown separator under the header: its four
\* cells are runs of dashes.
SeparatorRow(row) == \A c \in 1..4 : row.items[c] = StrV(<<"---">>)

\* C27: in cluster_energy_actions every row accumulated in all_data is a
\* data row: the header line and the markdown separator line are never
\* accumulated, and each row has exactly 5 fields.
C27_OnlyDataRows ==
  script = "Clustering"
  => \A k \in 1..Len(all_data) :
       /\ Len(all_data[k].rec.items) = 5
       /\ ~HeaderRow(all_data[k].rec)
       /\ ~SeparatorRow(all_data[k].rec)

\* The stripped line the step of  for line in lines  is about.
LineRead == PyStrip(result[i + 1])

MarkerLine(line) == CoverageMarker(line) \/ ValidationMarker(line)

\* The selector after a marker line.
MarkerOf(line) == IF CoverageMarker(line) THEN "coverage" ELSE "validation"

\* A line is stored in the table of the selector, the other table unchanged.
StoredUnder(sel) ==
  CASE sel = "coverage" ->
         Len(all_data') = Len(all_data) + 1 /\ UNCHANGED summary_data
    [] sel = "validation" ->
         Len(summary_data') = Len(summary_data) + 1 /\ UNCHANGED all_data
    [] OTHER -> UNCHANGED <<all_data, summary_data>>

\* One step of the loop over the lines routes its line as stated.
RoutedAsStated ==
  (script = "save_text_as_excel" /\ pc = "x_line" /\ i' = i + 1)
  => IF MarkerLine(LineRead)
     THEN phase' = MarkerOf(LineRead) /\ UNCHANGED <<all_data, summary_data>>
     ELSE /\ phase' = phase
          /\ IF LineRead # <<>> /\ Separated(LineRead)
             THEN Cells(LineRead) # <<>> => StoredUnder(phase)
             ELSE UNCHANGED <<all_data, summary_data>>

\* The sheet of that name has a header and at least one data row.
SheetFilled(name) ==
  \E f \in files : f.path = name /\ Len(f.data) >= 2

\* When the function is over and the writer itself did not fail, both
\* sheets are there, each with a header and a data row.
BothSheetsFilled ==
  (script = "save_text_as_excel" /\ pc \in {"done", "crashed"} /\ log = <<>>)
  => SheetFilled("Coverage Matrix") /\ SheetFilled("Validation Table")

\* C28: save_text_as_excel routes the lines by a selector with three states
\* (none, coverage, validation): a marker line switches the selector and is
\* never stored; any other non-empty tab- or pipe-separated line (one that
\* holds a cell) is stored in the table of the most recent marker and
\* dropped when no marker was seen; a table that ends with no rows or one row is completed with default
\* rows, so that both sheets always have a header and at least one data row.
C28_RoutedAndCompleted == [][RoutedAsStated]_vars /\ []BothSheetsFilled
====
